---------------------------- MODULE Spec2Model ----------------------------
(***************************************************************************)
(* Rice shop POS administration front end.                                 *)
(*                                                                         *)
(* The module models the parts of the repository, each with its own        *)
(* variables, and one specification per part:                              *)
(*   SpecAgg     the sales aggregator (AnalyticsService and useAnalytics)  *)
(*   SpecVanilla the vanilla-script Auth, Navigation and Utils             *)
(*   SpecApi     the vanilla-script API.request, driven by Auth            *)
(*   SpecReact   the React AuthProvider and AppContent                     *)
(*   SpecUsers   the React UserManagement component                        *)
(*   SpecErr     the vanilla-script ErrorHandler, driven by Auth           *)
(*   SpecCache   the vanilla-script DataCache                              *)
(*   SpecLoader  the vanilla-script DataLoader on DataCache                *)
(*   SpecProducts the React ProductManagement component                    *)
(*   SpecStore   the Firestore ProductsService and TransactionsService     *)
(*   SpecAccounts AuthService and UsersService: creating users, signing in *)
(*   SpecStock   the stock status, warning and low-stock list              *)
(*   SpecTm      the React TransactionManagement component                 *)
(*   SpecSession the vanilla-script Auth and DataLoader over two sessions  *)
(***************************************************************************)
EXTENDS Integers, Sequences, FiniteSets, TLC

VARIABLES
    \* ---- sales aggregator ----
    timezoneOffset,   \* the browser's offset from UTC, in ticks (fixed per run)
    transactions,     \* the transactions collection as the query returns it
                      \* (orderBy timestamp desc: newest first)
    analytics,        \* what the last AnalyticsService.getSalesAnalytics returned
    analyticsInput,   \* the list that call fetched
    hookAnalytics,    \* the `analytics` state of the useAnalytics hook
    \* ---- vanilla-script variant ----
    AppState,         \* window.AppState: user, userProfile, accessToken, currentPage
    dom,              \* the classes the scripts toggle: which of login-page and
                      \* main-app is hidden, the active nav item and page content
    sessionCheck,     \* Auth.checkExistingSession: where the call stands
    logins,           \* the Auth.handleLogin calls in flight, one per slot
    logouts,          \* the Auth.handleLogout calls awaiting signOut()
    lastRequest,      \* the request API.request issued last
    \* ---- React variant: AuthProvider ----
    fbUser,           \* auth.currentUser of Firebase Auth: a uid or null
    authEvents,       \* auth-state changes the listener has not been called for
    listenerTasks,    \* listener calls awaiting getDoc: the uid each was called with
    user,             \* AuthProvider state `user`
    userProfile,      \* AuthProvider state `userProfile`
    loading,          \* AuthProvider state `loading`
    signIns,          \* the signIn calls in flight, one per slot
    signOuts,         \* the signOut calls awaiting firebaseSignOut
    \* ---- React variant: UserManagement ----
    sessionRole,      \* userProfile?.role that useAuth() hands the component
    serverUsers,      \* the ids of the users the server holds
    users,            \* component state `users` (ids of the fetched list)
    usersLoading,     \* component state `loading`
    showDeleteModal,  \* component state `showDeleteModal`
    selectedUser,     \* component state `selectedUser` (an id or null)
    pendingFetches,   \* the fetchUsers calls awaiting their response
    pendingDeletes,   \* the handleDeleteUser calls awaiting their response
    lastUserRequest,  \* the request the component issued last
    showAddModal,     \* component state `showAddModal`
    showEditModal,    \* component state `showEditModal`
    formRole,         \* component state `formData`, its role
    pendingSaves,     \* the handleAddUser ("POST") and handleEditUser ("PUT")
                      \* calls awaiting their response
    \* ---- vanilla-script variant: ErrorHandler ----
    lastError,        \* the error ErrorHandler.handle was given last, and what
                      \* the call did
    \* ---- vanilla-script variant: DataCache ----
    clock,            \* Date.now(), in minutes
    cache,            \* DataCache.cache: key -> { data, expiry } or no entry
    written,          \* per key, the last DataCache.set not cleared since
    lastCacheOp,      \* the DataCache method called last, and its key
    \* ---- vanilla-script variant: DataLoader ----
    serverData,       \* per collection, which response the server gives now
    appData,          \* window.AppState.data: per collection, the response in it
    loads,            \* DataLoader requests in flight, in the order of issue
    lastLoad,         \* the last step of a DataLoader call, a request or a write
    \* ---- React variant: ProductManagement ----
    pm,               \* component state: products, loading, showAddModal,
                      \* showEditModal, showDeleteModal, selectedProduct, formData
    serverProducts,   \* the ids of the products the server holds
    productRequests,  \* the component's requests in flight, in the order of issue
    pmLast,           \* what the last step of the component was, and the alerts
                      \* it showed
    \* ---- Firestore services ----
    productDocs,      \* the products collection: document id -> document
    transactionDocs,  \* the transactions collection: document id -> document
    storeLast,        \* the last call of a service and the ids a query returned
    \* ---- creating users ----
    authAccounts,     \* Firebase Auth: uid -> email
    userDocs,         \* the users collection: document id -> profile
    signInLookup,     \* the last profile lookup of a sign-in
    authCurrentUser,  \* auth.currentUser: a uid or null
    lastSignIn,       \* how the last AuthService.signIn ended
    \* ---- stock levels ----
    shelf,            \* product id -> stock
    stockView,        \* the statuses, warnings and low-stock list shown
    \* ---- React variant: TransactionManagement ----
    tm,    \* component state: transactions, users, searchTerm and the three filters
    tmFetched,    \* the list the last GET /transactions returned
    tmNow,    \* the instant of the last render
    tmFiltered,   \* what getFilteredTransactions returned in the last render
    \* ---- sessionVars ----
    heldOver    \* history: what of DataCache and AppState.data was stored before the last logout

aggVars == <<timezoneOffset, transactions, analytics, analyticsInput, hookAnalytics>>
vanillaVars == <<AppState, dom, sessionCheck, logins, logouts, lastRequest>>

reactVars == <<fbUser, authEvents, listenerTasks, user, userProfile, loading,
               signIns, signOuts>>
usersVars == <<sessionRole, serverUsers, users, usersLoading, showDeleteModal,
               selectedUser, pendingFetches, pendingDeletes, lastUserRequest,
               showAddModal, showEditModal, formRole, pendingSaves>>

errVars == <<lastError>>
cacheVars == <<clock, cache, written, lastCacheOp>>
loaderVars == <<serverData, appData, loads, lastLoad>>
productVars == <<pm, serverProducts, productRequests, pmLast>>
storeVars == <<productDocs, transactionDocs, storeLast>>
accountVars == <<authAccounts, userDocs, signInLookup, authCurrentUser, lastSignIn>>
stockVars == <<shelf, stockView>>
tmVars == <<tm, tmFetched, tmNow, tmFiltered>>
sessionVars == <<heldOver>>

vars == <<aggVars, vanillaVars, reactVars, usersVars, errVars, cacheVars, loaderVars,
          productVars, storeVars, accountVars, stockVars, tmVars, sessionVars>>

\* what the actions of one part leave alone
notTm == <<aggVars, vanillaVars, reactVars, usersVars, errVars, cacheVars, loaderVars,
           productVars, storeVars, accountVars, stockVars, sessionVars>>
notAgg == <<vanillaVars, reactVars, usersVars, errVars, cacheVars, loaderVars,
   productVars, storeVars, accountVars, stockVars, tmVars, sessionVars>>
notVanilla == <<aggVars, reactVars, usersVars, errVars, cacheVars, loaderVars,
   productVars, storeVars, accountVars, stockVars, tmVars, sessionVars>>
notReact == <<aggVars, vanillaVars, usersVars, errVars, cacheVars, loaderVars,
   productVars, storeVars, accountVars, stockVars, tmVars, sessionVars>>
notProducts == <<aggVars, vanillaVars, reactVars, usersVars, errVars, cacheVars,
                 loaderVars, storeVars, accountVars, stockVars, tmVars, sessionVars>>
notStore == <<aggVars, vanillaVars, reactVars, usersVars, errVars, cacheVars,
              loaderVars, productVars, accountVars, stockVars, tmVars, sessionVars>>
notAccounts == <<aggVars, vanillaVars, reactVars, usersVars, errVars, cacheVars,
                 loaderVars, productVars, storeVars, stockVars, tmVars, sessionVars>>
notStock == <<aggVars, vanillaVars, reactVars, usersVars, errVars, cacheVars,
              loaderVars, productVars, storeVars, accountVars, tmVars, sessionVars>>
notUsers == <<aggVars, vanillaVars, reactVars, errVars, cacheVars, loaderVars,
   productVars, storeVars, accountVars, stockVars, tmVars, sessionVars>>

-----------------------------------------------------------------------------
(* Bounds of the model *)

\* at most this many transactions are recorded
MaxTx == 3
\* clock instants run from 0 to MaxInstant
MaxInstant == 1
\* at most this many submissions of the login form are in flight at once
MaxLogins == 2
\* at most this many clicks on the logout button are in flight at once
MaxLogouts == 1
\* React signIn calls in flight at once, signOut calls in flight at once, and
\* listener calls not yet finished
MaxSignIns == 2
MaxSignOuts == 1
MaxListeners == 2
\* UserManagement requests awaiting their response
MaxRequests == 2
\* the minutes the clock of the cache runs for
MaxClock == 7
\* successful writes to a collection, and DataLoader requests in flight
MaxWrites == 2
MaxLoads == 2
\* ProductManagement requests in flight
MaxProductRequests == 2
\* stored sales and the stock of a product
MaxSales == 2
MaxStock == 1
\* the highest stock level tried
MaxStockLevel == 12
\* TransactionManagement: the length of a fetched list, the ticks of a day
MaxFetched == 2
TicksPerDay == 2

-----------------------------------------------------------------------------
(* JavaScript values and library functions used by the code *)

\* A plain object used as a map, as the sequence of its own properties
\* [k, v] in the order in which they were first assigned.
EmptyObject == << >>
HasKey(obj, k) == \E i \in 1..Len(obj) : obj[i].k = k
\* `obj[k] || 0` for a map of numbers: undefined (no such property) gives 0
ObjGetOrZero(obj, k) ==
    IF HasKey(obj, k)
    THEN obj[CHOOSE i \in 1..Len(obj) : obj[i].k = k].v
    ELSE 0
\* a variant in which an assignment moves an existing property to the end
ObjSetMovingLast(obj, k, v) ==
    Append(SelectSeq(obj, LAMBDA e : e.k # k), [k |-> k, v |-> v])
\* obj[k] = v : an existing property keeps its place
ObjSet(obj, k, v) ==
    IF HasKey(obj, k)
    THEN [i \in 1..Len(obj) |-> IF obj[i].k = k THEN [k |-> k, v |-> v] ELSE obj[i]]
    ELSE Append(obj, [k |-> k, v |-> v])

\* Array.prototype.sort with a consistent comparator is stable:
\* Before(a, b) is `comparator(a, b) < 0`.
StableSort(s, Before(_, _)) ==
    LET n == Len(s)
        rank(i) == Cardinality({j \in 1..n :
                       \/ Before(s[j], s[i])
                       \/ (~Before(s[i], s[j]) /\ j < i)})
    IN [p \in 1..n |-> s[CHOOSE i \in 1..n : rank(i) = p - 1]]

\* Array.prototype.slice(0, n)
Slice0(s, n) == SubSeq(s, 1, IF Len(s) < n THEN Len(s) ELSE n)

\* Property names that are canonical array indices ("7", "12"); -1 otherwise.
ArrayIndexOfName(k) ==
    CASE k = "7" -> 7
      [] k = "12" -> 12
      [] OTHER -> -1
\* A month key holds a hyphen and is never an array index.
ArrayIndexOfMonthKey(k) == -1

\* Object.entries: integer-like keys first in ascending numeric order, then
\* the string keys in insertion order.
ObjectEntries(obj, ArrayIndex(_)) ==
    LET ints == SelectSeq(obj, LAMBDA e : ArrayIndex(e.k) >= 0)
        strs == SelectSeq(obj, LAMBDA e : ArrayIndex(e.k) < 0)
        IntBefore(a, b) == ArrayIndex(a.k) < ArrayIndex(b.k)
    IN StableSort(ints, IntBefore) \o strs

\* String(n) for a natural number, as a sequence of characters
DigitChar(d) ==
    CASE d = 0 -> "0" [] d = 1 -> "1" [] d = 2 -> "2" [] d = 3 -> "3"
      [] d = 4 -> "4" [] d = 5 -> "5" [] d = 6 -> "6" [] d = 7 -> "7"
      [] d = 8 -> "8" [] d = 9 -> "9"
RECURSIVE NumberToString(_)
NumberToString(n) ==
    IF n < 10 THEN <<DigitChar(n)>>
    ELSE NumberToString(n \div 10) \o <<DigitChar(n % 10)>>
\* String.prototype.padStart(len, "0")
RECURSIVE PadStart0(_, _)
PadStart0(s, len) == IF Len(s) >= len THEN s ELSE PadStart0(<<"0">> \o s, len)

\* UTF-16 code of the characters a month key is made of
CharCode(c) ==
    CASE c = "-" -> 45
      [] c = "0" -> 48 [] c = "1" -> 49 [] c = "2" -> 50 [] c = "3" -> 51
      [] c = "4" -> 52 [] c = "5" -> 53 [] c = "6" -> 54 [] c = "7" -> 55
      [] c = "8" -> 56 [] c = "9" -> 57
\* a.localeCompare(b) < 0 on strings of digits and hyphens
RECURSIVE LocaleBefore(_, _)
LocaleBefore(a, b) ==
    IF b = << >> THEN FALSE
    ELSE IF a = << >> THEN TRUE
    ELSE IF CharCode(Head(a)) # CharCode(Head(b))
         THEN CharCode(Head(a)) < CharCode(Head(b))
         ELSE LocaleBefore(Tail(a), Tail(b))

-----------------------------------------------------------------------------
(* Time.  A timestamp is an instant counted in ticks from the start of       *)
(* December 2023 (UTC); a month has TicksPerMonth ticks: its first hours and *)
(* the rest.  new Date(ts).getFullYear()/getMonth() read the instant in the  *)
(* browser's local time zone, which lies timezoneOffset ticks from UTC.      *)

TicksPerMonth == 2
EpochYear == 2023
EpochMonth0 == 11
TimezoneOffsets == {-1, 0, 1}
Instants == 0..MaxInstant

\* months since year 0 of the local calendar month the instant falls in
LocalMonthIndex(ts, tz) ==
    EpochYear * 12 + EpochMonth0
      + ((ts + tz + TicksPerMonth) \div TicksPerMonth) - 1
GetFullYear(ts, tz) == LocalMonthIndex(ts, tz) \div 12
GetMonth(ts, tz) == LocalMonthIndex(ts, tz) % 12

\* the key with the `+ 1` on getMonth() left out
MonthKeyZeroBased(ts, tz) ==
    NumberToString(GetFullYear(ts, tz)) \o <<"-">>
      \o PadStart0(NumberToString(GetMonth(ts, tz)), 2)

\* `${date.getFullYear()}-${String(date.getMonth() + 1).padStart(2, '0')}`
MonthKey(ts, tz) ==
    NumberToString(GetFullYear(ts, tz)) \o <<"-">>
      \o PadStart0(NumberToString(GetMonth(ts, tz) + 1), 2)


-----------------------------------------------------------------------------
(* The sales aggregator *)

TopN == 5

\* What a sale carries besides its timestamp: cashierName, total and items
\* (name, quantity, price snapshots).  `total` is whatever the caller passed:
\* nothing ties it to the items.
Item(n, q, p) == [name |-> n, quantity |-> q, price |-> p]
TransactionData ==
    { [cashierName |-> "ani", total |-> 4,
       items |-> <<Item("beras", 2, 1), Item("ketan", 1, 2)>>],
      [cashierName |-> "budi", total |-> 3,
       items |-> <<Item("gula", 1, 3), Item("beras", 1, 1)>>],
      [cashierName |-> "ani", total |-> 5,
       items |-> <<Item("minyak", 1, 2), Item("12", 2, 1), Item("7", 1, 2)>>] }

\* Documents another client wrote: the schema allows a status other than
\* completed.
RemoteStatuses == {"refunded"}
RemoteData ==
    { [cashierName |-> "citra", total |-> 1,
       items |-> <<Item("telur", 1, 1), Item("ketan", 1, 1)>>] }

\* transactions.forEach(t => { salesByMonth[monthKey] = (salesByMonth[monthKey] || 0) + t.total })
RECURSIVE AccumulateSalesByMonth(_, _, _)
AccumulateSalesByMonth(txs, tz, salesByMonth) ==
    IF txs = << >> THEN salesByMonth
    ELSE LET transaction == Head(txs)
             monthKey == MonthKey(transaction.timestamp, tz)
         IN AccumulateSalesByMonth(Tail(txs), tz,
                ObjSet(salesByMonth, monthKey,
                       ObjGetOrZero(salesByMonth, monthKey) + transaction.total))

\* Object.entries(salesByMonth).map(([month, sales]) => ({ month, sales }))
MonthEntries(salesByMonth) ==
    LET es == ObjectEntries(salesByMonth, ArrayIndexOfMonthKey)
    IN [i \in 1..Len(es) |-> [month |-> es[i].k, sales |-> es[i].v]]

MonthBefore(a, b) == LocaleBefore(a.month, b.month)

calculateSalesByMonth(txs, tz) ==
    StableSort(MonthEntries(AccumulateSalesByMonth(txs, tz, EmptyObject)), MonthBefore)

\* transaction.items.forEach(item => { productSales[item.name] = (... || 0) + item.quantity * item.price })
RECURSIVE AccumulateItems(_, _)
AccumulateItems(items, productSales) ==
    IF items = << >> THEN productSales
    ELSE LET item == Head(items)
         IN AccumulateItems(Tail(items),
                ObjSet(productSales, item.name,
                       ObjGetOrZero(productSales, item.name)
                         + (item.quantity * item.price)))

RECURSIVE AccumulateProductSales(_, _)
AccumulateProductSales(txs, productSales) ==
    IF txs = << >> THEN productSales
    ELSE AccumulateProductSales(Tail(txs), AccumulateItems(Head(txs).items, productSales))

ProductEntries(productSales) ==
    LET es == ObjectEntries(productSales, ArrayIndexOfName)
    IN [i \in 1..Len(es) |-> [name |-> es[i].k, sales |-> es[i].v]]

\* the comparator turned round: (a, b) => a.sales - b.sales
SalesAscBefore(a, b) == a.sales - b.sales < 0

\* (a, b) => b.sales - a.sales
SalesDescBefore(a, b) == b.sales - a.sales < 0

calculateTopProducts(txs) ==
    Slice0(StableSort(ProductEntries(AccumulateProductSales(txs, EmptyObject)),
                      SalesDescBefore), TopN)

\* a reduce that counts completed sales only
RECURSIVE ReduceCompletedTotal(_, _)
ReduceCompletedTotal(txs, sum) ==
    IF txs = << >> THEN sum
    ELSE ReduceCompletedTotal(Tail(txs),
             sum + (IF Head(txs).status = "completed" THEN Head(txs).total ELSE 0))

\* transactions.reduce((sum, t) => sum + t.total, 0)
RECURSIVE ReduceTotal(_, _)
ReduceTotal(txs, sum) ==
    IF txs = << >> THEN sum ELSE ReduceTotal(Tail(txs), sum + Head(txs).total)

\* The object AnalyticsService.getSalesAnalytics resolves to.  The products
\* and users collections are not part of this model: their lengths are 0.
SalesAnalytics(txs, tz) ==
    [totalSales |-> ReduceTotal(txs, 0),
     totalTransactions |-> Len(txs),
     totalProducts |-> 0,
     totalUsers |-> 0,
     salesByMonth |-> calculateSalesByMonth(txs, tz),
     topProducts |-> calculateTopProducts(txs),
     recentTransactions |-> Slice0(txs, 5)]

\* The object the effect of useAnalytics passes to setAnalytics: the monthly
\* series is Object.entries(...) unsorted.
HookAnalytics(txs, tz) ==
    [totalSales |-> ReduceTotal(txs, 0),
     totalTransactions |-> Len(txs),
     totalProducts |-> 0,
     totalUsers |-> 0,
     salesByMonth |-> MonthEntries(AccumulateSalesByMonth(txs, tz, EmptyObject)),
     topProducts |-> calculateTopProducts(txs),
     recentTransactions |-> Slice0(txs, 5)]

\* the promise a call of getSalesAnalytics returned
NotFetched == [state |-> "not-fetched", result |-> << >>]
Rejected == [state |-> "rejected", result |-> << >>]
Resolved(r) == [state |-> "resolved", result |-> r]

AggInit(offsets) ==
    /\ timezoneOffset \in offsets
    /\ transactions = << >>
    /\ analytics = NotFetched
    /\ analyticsInput = << >>
    /\ hookAnalytics = HookAnalytics(<< >>, timezoneOffset)

TransactionDoc(data, now, status) ==
    [cashierName |-> data.cashierName,
     total |-> data.total,
     items |-> data.items,
     timestamp |-> now,
     status |-> status]

\* A document added at instant `now`, which is never earlier than a stored
\* timestamp, so the query ordered by timestamp desc returns it first.  The
\* listener of useTransactions delivers the new snapshot and the effect of
\* useAnalytics recomputes from it.
AddDoc(doc) ==
    /\ Len(transactions) < MaxTx
    /\ transactions # << >> => doc.timestamp >= Head(transactions).timestamp
    /\ transactions' = <<doc>> \o transactions
    /\ hookAnalytics' = HookAnalytics(<<doc>> \o transactions, timezoneOffset)
    /\ UNCHANGED <<timezoneOffset, analytics, analyticsInput, notAgg>>

\* TransactionsService.create: timestamp = now, status = 'completed'
CreateTransaction ==
    \E data \in TransactionData, now \in Instants :
        AddDoc(TransactionDoc(data, now, "completed"))

\* A sale another client stored with a status of its own
RemoteTransaction ==
    \E data \in RemoteData, now \in Instants, status \in RemoteStatuses :
        AddDoc(TransactionDoc(data, now, status))

\* AnalyticsService.getSalesAnalytics, the three getAll() succeeding
GetSalesAnalytics ==
    /\ analytics' = Resolved(SalesAnalytics(transactions, timezoneOffset))
    /\ analyticsInput' = transactions
    /\ UNCHANGED <<timezoneOffset, transactions, hookAnalytics, notAgg>>

\* AnalyticsService.getSalesAnalytics, a getAll() failing: handleFirestoreError
\* throws out of getAll and again out of the catch block
GetSalesAnalyticsFails ==
    /\ analytics' = Rejected
    /\ analyticsInput' = << >>
    /\ UNCHANGED <<timezoneOffset, transactions, hookAnalytics, notAgg>>

AggNext ==
    \/ CreateTransaction
    \/ RemoteTransaction
    \/ GetSalesAnalytics
    \/ GetSalesAnalyticsFails

-----------------------------------------------------------------------------
(* The vanilla-script variant: AppState, Utils, Auth, Navigation, API *)

Roles == {"admin", "manager", "cashier"}
\* The accounts of the shop; the id of an account is its name and each has a
\* profile in the list GET /users returns.
Accounts == {"admin", "manager", "cashier"}
ProfileOf(id) == [id |-> id, role |-> id]
Pages == {"dashboard", "products", "transactions", "users"}

\* null / undefined
Null == "null"
NoProfile == [id |-> Null, role |-> Null]
\* the access_token the sign-in of an account returns
TokenOf(id) ==
    CASE id = "admin" -> "token-admin"
      [] id = "manager" -> "token-manager"
      [] id = "cashier" -> "token-cashier"
AnonKey == "anon-key"

\* roleHierarchy[role]; undefined (here 0, with the comparison guarded) for
\* any other string
IsRole(r) == r \in Roles
roleHierarchy(r) ==
    CASE r = "admin" -> 3
      [] r = "manager" -> 2
      [] r = "cashier" -> 1

\* a hierarchy check written with > in place of >=
hasPermissionStrict(profile, requiredRole) ==
    LET userRole == profile.role
    IN IF userRole = Null THEN FALSE
       ELSE IsRole(userRole) /\ IsRole(requiredRole)
            /\ roleHierarchy(userRole) > roleHierarchy(requiredRole)

\* Utils.hasPermission, reading window.AppState.userProfile?.role; a
\* comparison with undefined is false
hasPermission(profile, requiredRole) ==
    LET userRole == profile.role
    IN IF userRole = Null THEN FALSE
       ELSE IsRole(userRole) /\ IsRole(requiredRole)
            /\ roleHierarchy(userRole) >= roleHierarchy(requiredRole)

\* Auth.showLoginPage
showLoginPage(d) == [d EXCEPT !.loginHidden = FALSE, !.mainHidden = TRUE]

\* Auth.showMainApp: Navigation.init() marks the nav item of
\* AppState.currentPage; the page contents are left as they are
showMainApp(d, currentPage) ==
    [d EXCEPT !.loginHidden = TRUE, !.mainHidden = FALSE, !.navActive = currentPage]

\* Utils.updatePageVisibility: the .admin-only elements
updatePageVisibility(d, profile) ==
    [d EXCEPT !.adminOnlyShown = profile.role \in {"admin", "manager"}]

\* The part of Auth.fetchUserProfile after `await fetch(.../users)`.  With
\* response.ok the profile is users.find(u => u.id === AppState.user.id): a
\* TypeError when AppState.user is null by then, which the catch swallows,
\* and undefined when the list does not hold the user (`found` false).
FetchOutcomes == {"ok-found", "ok-missing", "not-ok"}
ProfileFetched(st, outcome) ==
    IF outcome = "not-ok" \/ st.user = Null THEN st
    ELSE IF outcome = "ok-found" THEN [st EXCEPT !.userProfile = ProfileOf(st.user)]
    ELSE [st EXCEPT !.userProfile = NoProfile]
ProfileFetchedDom(d, st, outcome) ==
    IF outcome = "not-ok" \/ st.user = Null THEN d
    ELSE updatePageVisibility(d, ProfileFetched(st, outcome).userProfile)

Idle == [pc |-> "idle", account |-> Null]

\* window.AppState as the script creates it.  The page markup is not among
\* the sources: login-page and main-app are taken to start hidden behind the
\* loading screen, which checkExistingSession removes.
VanillaInit ==
    /\ AppState = [user |-> Null, userProfile |-> NoProfile,
                   accessToken |-> Null, currentPage |-> "dashboard"]
    /\ dom = [loginHidden |-> TRUE, mainHidden |-> TRUE, loadingHidden |-> FALSE,
              navActive |-> "dashboard", contentActive |-> "dashboard",
              adminOnlyShown |-> TRUE]
    /\ sessionCheck = "getSession"
    /\ logins = [slot \in 1..MaxLogins |-> Idle]
    /\ logouts = 0
    /\ lastRequest = [endpoint |-> Null, method |-> Null, headers |-> {},
                      tokenHeld |-> Null]

\* Auth.checkExistingSession up to the first await after getSession():
\* with a session, user and token are stored and the profile fetch starts
SessionFound ==
    /\ sessionCheck = "getSession"
    /\ \E id \in Accounts :
          AppState' = [AppState EXCEPT !.user = id, !.accessToken = TokenOf(id)]
    /\ sessionCheck' = "fetchProfile"
    /\ UNCHANGED <<dom, logins, logouts, lastRequest, notVanilla>>

\* Auth.checkExistingSession: no session, or getSession() failing
SessionAbsent ==
    /\ sessionCheck = "getSession"
    /\ sessionCheck' = "done"
    /\ dom' = [showLoginPage(dom) EXCEPT !.loadingHidden = TRUE]
    /\ UNCHANGED <<AppState, logins, logouts, lastRequest, notVanilla>>

\* Auth.checkExistingSession: the profile fetch settles, then showMainApp
\* and, in the finally block, hideLoading
SessionProfileSettled ==
    /\ sessionCheck = "fetchProfile"
    /\ \E outcome \in FetchOutcomes :
          /\ AppState' = ProfileFetched(AppState, outcome)
          /\ dom' = [showMainApp(ProfileFetchedDom(dom, AppState, outcome),
                                  AppState.currentPage)
                       EXCEPT !.loadingHidden = TRUE]
    /\ sessionCheck' = "done"
    /\ UNCHANGED <<logins, logouts, lastRequest, notVanilla>>

\* The login form is submitted: Auth.handleLogin up to `await fetch(signin)`
LoginSubmit(slot) ==
    /\ ~dom.loginHidden
    /\ logins[slot] = Idle
    /\ \E id \in Accounts :
          logins' = [logins EXCEPT ![slot] = [pc |-> "signin", account |-> id]]
    /\ UNCHANGED <<AppState, dom, sessionCheck, logouts, lastRequest, notVanilla>>

\* Auth.handleLogin: the sign-in is refused (wrong password) or the fetch
\* fails; the error is shown on the login form
LoginRefused(slot) ==
    /\ logins[slot].pc = "signin"
    /\ logins' = [logins EXCEPT ![slot] = Idle]
    /\ UNCHANGED <<AppState, dom, sessionCheck, logouts, lastRequest, notVanilla>>

\* Auth.handleLogin: the sign-in succeeded; user and token are stored and
\* the profile fetch starts
LoginAccepted(slot) ==
    /\ logins[slot].pc = "signin"
    /\ AppState' = [AppState EXCEPT !.user = logins[slot].account,
                                    !.accessToken = TokenOf(logins[slot].account)]
    /\ logins' = [logins EXCEPT ![slot].pc = "fetchProfile"]
    /\ UNCHANGED <<dom, sessionCheck, logouts, lastRequest, notVanilla>>

\* Auth.handleLogin: the profile fetch settles, then showMainApp
LoginProfileSettled(slot) ==
    /\ logins[slot].pc = "fetchProfile"
    /\ \E outcome \in FetchOutcomes :
          /\ AppState' = ProfileFetched(AppState, outcome)
          /\ dom' = showMainApp(ProfileFetchedDom(dom, AppState, outcome),
                                AppState.currentPage)
    /\ logins' = [logins EXCEPT ![slot] = Idle]
    /\ UNCHANGED <<sessionCheck, logouts, lastRequest, notVanilla>>

\* The logout button is clicked: Auth.handleLogout up to `await signOut()`
LogoutClick ==
    /\ ~dom.mainHidden
    /\ logouts < MaxLogouts
    /\ logouts' = logouts + 1
    /\ UNCHANGED <<AppState, dom, sessionCheck, logins, lastRequest, notVanilla>>

\* Auth.handleLogout after signOut(): the session is dropped and the login
\* page shown; currentPage is kept
LogoutDone ==
    /\ logouts > 0
    /\ logouts' = logouts - 1
    /\ AppState' = [AppState EXCEPT !.user = Null, !.userProfile = NoProfile,
                                    !.accessToken = Null]
    /\ dom' = showLoginPage(dom)
    /\ heldOver' = {<<"cache", k>> : k \in {k \in DOMAIN cache : cache[k].present}}
                    \cup {<<"data", k>> : k \in {k \in DOMAIN appData : appData[k] # Null}}
    /\ UNCHANGED <<sessionCheck, logins, lastRequest, aggVars, reactVars, usersVars,
                   errVars, cacheVars, loaderVars, productVars, storeVars,
                   accountVars, stockVars, tmVars>>

\* Auth.handleLogout with signOut() throwing: the error is logged
LogoutFails ==
    /\ logouts > 0
    /\ logouts' = logouts - 1
    /\ UNCHANGED <<AppState, dom, sessionCheck, logins, lastRequest, notVanilla>>

\* Navigation.navigateToPage(page), from a click on a nav item
navigateToPage(page) ==
    /\ ~dom.mainHidden
    /\ IF page = "users" /\ ~hasPermission(AppState.userProfile, "manager")
       THEN UNCHANGED <<AppState, dom>>
       ELSE /\ AppState' = [AppState EXCEPT !.currentPage = page]
            /\ dom' = [dom EXCEPT !.navActive = page, !.contentActive = page]
    /\ UNCHANGED <<sessionCheck, logins, logouts, lastRequest, notVanilla>>

AuthNext ==
    \/ SessionFound
    \/ SessionAbsent
    \/ SessionProfileSettled
    \/ \E slot \in 1..MaxLogins : LoginSubmit(slot)
    \/ \E slot \in 1..MaxLogins : LoginRefused(slot)
    \/ \E slot \in 1..MaxLogins : LoginAccepted(slot)
    \/ \E slot \in 1..MaxLogins : LoginProfileSettled(slot)
    \/ LogoutClick
    \/ LogoutDone
    \/ LogoutFails

VanillaNext ==
    \/ AuthNext
    \/ \E page \in Pages : navigateToPage(page)

\* API.request(endpoint, options): the headers of the request it hands to
\* fetch.  config = { headers: {...defaultHeaders, ...options.headers},
\* ...options }: the spread of options comes last, so an options.headers
\* replaces the merged headers.
ContentTypeJson == [name |-> "Content-Type", value |-> "application/json"]
Bearer(token) == [name |-> "Authorization", value |-> <<"Bearer", token>>]
HeaderNames(hs) == {h.name : h \in hs}
\* {...a, ...b} on headers
Spread(a, b) == {h \in a : h.name \notin HeaderNames(b)} \cup b

\* a request whose Authorization header was fixed when the script loaded
requestHeadersAtLoad(accessToken, options) ==
    IF options.hasHeaders THEN options.headers
    ELSE Spread({ContentTypeJson}, options.headers)

requestHeaders(accessToken, options) ==
    LET defaultHeaders ==
            IF accessToken # Null
            THEN {ContentTypeJson, Bearer(accessToken)}
            ELSE {ContentTypeJson}
        merged == Spread(defaultHeaders, options.headers)
    IN IF options.hasHeaders THEN options.headers ELSE merged

\* The calls of the API object: endpoint, method and the headers option
NoHeaders == [hasHeaders |-> FALSE, headers |-> {}]
ApiCall(endpoint, method, options) ==
    [endpoint |-> endpoint, method |-> method, options |-> options]
ApiCalls ==
    { ApiCall("/auth/signin", "POST",
              [hasHeaders |-> TRUE, headers |-> {Bearer(AnonKey)}]),
      ApiCall("/auth/signup", "POST", NoHeaders),
      ApiCall("/users", "GET", NoHeaders),
      ApiCall("/users/:id", "PUT", NoHeaders),
      ApiCall("/users/:id", "DELETE", NoHeaders),
      ApiCall("/products", "GET", NoHeaders),
      ApiCall("/products", "POST", NoHeaders),
      ApiCall("/products/:id", "PUT", NoHeaders),
      ApiCall("/products/:id", "DELETE", NoHeaders),
      ApiCall("/transactions", "GET", NoHeaders),
      ApiCall("/transactions", "POST", NoHeaders),
      ApiCall("/analytics/sales", "GET", NoHeaders),
      ApiCall("/health", "GET", NoHeaders) }

\* API.request up to `await fetch(url, config)`, called through one of the
\* methods of API
ApiRequest ==
    /\ \E call \in ApiCalls :
          lastRequest' = [endpoint |-> call.endpoint,
                          method |-> call.method,
                          headers |-> requestHeaders(AppState.accessToken, call.options),
                          tokenHeld |-> AppState.accessToken]
    /\ UNCHANGED <<AppState, dom, sessionCheck, logins, logouts, notVanilla>>

-----------------------------------------------------------------------------
(* The vanilla-script variant: ErrorHandler *)

\* A message is the sequence of its words; message.includes(word)
Includes(message, word) == \E i \in 1..Len(message) : message[i] = word

\* The statuses of a failed response and the JSON bodies a server sends with
\* them: no body that parses (response.json() rejects and {} stands in), a
\* body without an `error` field, or a body whose `error` is a text
FailureStatuses == {401, 403, 404, 500}
NoErrorField == << >>
ErrorBodies ==
    { NoErrorField, <<"Unauthorized">>, <<"Invalid", "token">>, <<"Forbidden">> }

\* `${response.status}`
StatusText(status) ==
    CASE status = 401 -> "401" [] status = 403 -> "403"
      [] status = 404 -> "404" [] status = 500 -> "500"

\* API.request with !response.ok:
\* new Error(error.error || `Request failed with status ${response.status}`)
RequestError(status, body) ==
    [status |-> status,
     message |-> IF body # NoErrorField THEN body
                 ELSE <<"Request", "failed", "with", "status", StatusText(status)>>]

\* whether ErrorHandler.handle takes the branch that calls Auth.handleLogout
IsSessionExpired(error) ==
    Includes(error.message, "Unauthorized") \/ Includes(error.message, "401")

NoError == [status |-> 0, message |-> << >>, forcedLogout |-> FALSE, shown |-> FALSE]

ErrInit == lastError = NoError

\* ErrorHandler.handle(error) for the error a failed API.request threw: on
\* the session-expired branch Auth.handleLogout is called (it runs up to its
\* `await signOut()`) and handle returns; otherwise a message is shown
HandleRequestError ==
    /\ AppState.accessToken # Null
    /\ \E status \in FailureStatuses, body \in ErrorBodies :
          LET error == RequestError(status, body)
          IN IF IsSessionExpired(error)
             THEN /\ logouts < MaxLogouts
                  /\ logouts' = logouts + 1
                  /\ lastError' = [status |-> status, message |-> error.message,
                                   forcedLogout |-> TRUE, shown |-> FALSE]
             ELSE /\ lastError' = [status |-> status, message |-> error.message,
                                   forcedLogout |-> FALSE, shown |-> TRUE]
                  /\ UNCHANGED logouts
    /\ UNCHANGED <<AppState, dom, sessionCheck, logins, lastRequest,
                   aggVars, reactVars, usersVars, cacheVars, loaderVars,
                   productVars, storeVars, accountVars, stockVars, tmVars, sessionVars>>

-----------------------------------------------------------------------------
(* The vanilla-script variant: DataCache *)

\* a list without its i-th element
RemoveAt(s, i) == [j \in 1..(Len(s) - 1) |-> IF j < i THEN s[j] ELSE s[j + 1]]

CacheKeys == {"products", "analytics"}
CacheData == {"response-1", "response-2"}
\* expiryMinutes: 5 by default, 2 where DataLoader.loadAnalytics passes it
DefaultExpiryMinutes == 5
AnalyticsExpiryMinutes == 2
NoEntry == [present |-> FALSE, data |-> Null, expiry |-> 0]

\* an entry taken as expired from the minute of its expiry on
IsExpiredAtExpiry(entry, now) == now >= entry.expiry

\* Date.now() > cached.expiry
IsExpired(entry, now) == now > entry.expiry

\* DataCache.set(key, data, expiryMinutes) at time `now`
CacheSet(c, key, data, expiryMinutes, now) ==
    [c EXCEPT ![key] = [present |-> TRUE, data |-> data,
                        expiry |-> now + expiryMinutes]]

\* DataCache.get(key): what it returns, and the cache it leaves
CacheGet(c, key, now) ==
    IF ~c[key].present THEN Null
    ELSE IF IsExpired(c[key], now) THEN Null
    ELSE c[key].data
CacheAfterGet(c, key, now) ==
    IF c[key].present /\ IsExpired(c[key], now) THEN [c EXCEPT ![key] = NoEntry]
    ELSE c

\* DataCache.clear(key) and DataCache.clear()
CacheClear(c, key) == [c EXCEPT ![key] = NoEntry]
CacheClearAll(c) == [k \in DOMAIN c |-> NoEntry]

\* DataCache.cleanup() at time `now`
CacheCleanup(c, now) ==
    [k \in DOMAIN c |-> IF c[k].present /\ IsExpired(c[k], now) THEN NoEntry ELSE c[k]]

NeverSet == [set |-> FALSE, data |-> Null, at |-> 0, minutes |-> 0]
CacheOp(op, key) == [op |-> op, key |-> key]

CacheInit ==
    /\ clock = 0
    /\ cache = [k \in CacheKeys |-> NoEntry]
    /\ written = [k \in CacheKeys |-> NeverSet]
    /\ lastCacheOp = CacheOp(Null, Null)

\* a minute passes
Tick ==
    /\ clock < MaxClock
    /\ clock' = clock + 1
    /\ UNCHANGED <<cache, written, lastCacheOp, aggVars, vanillaVars, reactVars,
                   usersVars, errVars, loaderVars, productVars, storeVars, accountVars, stockVars, tmVars, sessionVars>>

SetCall(key, data, expiryMinutes) ==
    /\ cache' = CacheSet(cache, key, data, expiryMinutes, clock)
    /\ written' = [written EXCEPT ![key] = [set |-> TRUE, data |-> data,
                                            at |-> clock, minutes |-> expiryMinutes]]
    /\ lastCacheOp' = CacheOp("set", key)
    /\ heldOver' = heldOver \ {<<"cache", key>>}
    /\ UNCHANGED <<clock, aggVars, vanillaVars, reactVars, usersVars, errVars, loaderVars, productVars, storeVars, accountVars, stockVars, tmVars>>

GetCall(key) ==
    /\ cache' = CacheAfterGet(cache, key, clock)
    /\ lastCacheOp' = CacheOp("get", key)
    /\ UNCHANGED <<clock, written, aggVars, vanillaVars, reactVars, usersVars, errVars,
                   loaderVars, productVars, storeVars, accountVars, stockVars, tmVars, sessionVars>>

ClearCall(key) ==
    /\ cache' = CacheClear(cache, key)
    /\ written' = [written EXCEPT ![key] = NeverSet]
    /\ lastCacheOp' = CacheOp("clear", key)
    /\ UNCHANGED <<clock, aggVars, vanillaVars, reactVars, usersVars, errVars, loaderVars, productVars, storeVars, accountVars, stockVars, tmVars, sessionVars>>

ClearAllCall ==
    /\ cache' = CacheClearAll(cache)
    /\ written' = [k \in CacheKeys |-> NeverSet]
    /\ lastCacheOp' = CacheOp("clear", Null)
    /\ UNCHANGED <<clock, aggVars, vanillaVars, reactVars, usersVars, errVars, loaderVars, productVars, storeVars, accountVars, stockVars, tmVars, sessionVars>>

\* the periodic DataCache.cleanup()
CleanupCall ==
    /\ cache' = CacheCleanup(cache, clock)
    /\ lastCacheOp' = CacheOp("cleanup", Null)
    /\ UNCHANGED <<clock, written, aggVars, vanillaVars, reactVars, usersVars, errVars,
                   loaderVars, productVars, storeVars, accountVars, stockVars, tmVars, sessionVars>>

CacheNext ==
    \/ Tick
    \/ \E key \in CacheKeys, data \in CacheData,
          expiryMinutes \in {DefaultExpiryMinutes, AnalyticsExpiryMinutes} :
             SetCall(key, data, expiryMinutes)
    \/ \E key \in CacheKeys : GetCall(key)
    \/ \E key \in CacheKeys : ClearCall(key)
    \/ ClearAllCall
    \/ CleanupCall

-----------------------------------------------------------------------------
(* The vanilla-script variant: DataLoader *)

\* The responses GET /<collection> gives, one after each successful write
Responses == <<"response-0", "response-1", "response-2", "response-3", "response-4">>
\* every loader caching for the 2 minutes of loadAnalytics
ExpiryOfAnalytics(key) == AnalyticsExpiryMinutes

\* DataCache.set(cacheKey, response) and, in loadAnalytics, (.., response, 2)
ExpiryOf(key) ==
    IF key = "analytics" THEN AnalyticsExpiryMinutes ELSE DefaultExpiryMinutes
\* loadUsers, loadProducts and loadTransactions are the same code on three
\* keys: one of them is run
LoaderKeys == {"products"}
NoLoad == [key |-> Null, forceRefresh |-> FALSE, step |-> Null, result |-> Null]

LoaderInit ==
    /\ serverData = [k \in CacheKeys |-> 1]
    /\ appData = [k \in CacheKeys |-> Null]
    /\ loads = << >>
    /\ lastLoad = NoLoad

\* DataLoader.loadX(false) with a cached response: AppState.data.X is set
\* from it and it is returned; no request is made
LoadFromCache(key) ==
    /\ CacheGet(cache, key, clock) # Null
    /\ appData' = [appData EXCEPT ![key] = CacheGet(cache, key, clock)]
    /\ cache' = CacheAfterGet(cache, key, clock)
    /\ lastCacheOp' = CacheOp("get", key)
    /\ heldOver' = IF <<"cache", key>> \in heldOver
                   THEN heldOver \cup {<<"data", key>>}
                   ELSE heldOver \ {<<"data", key>>}
    /\ lastLoad' = [key |-> key, forceRefresh |-> FALSE, step |-> "cached",
                    result |-> CacheGet(cache, key, clock)]
    /\ UNCHANGED <<clock, written, serverData, loads,
                   aggVars, vanillaVars, reactVars, usersVars, errVars, productVars, storeVars, accountVars, stockVars, tmVars>>

\* DataLoader.loadX(forceRefresh) up to `await API.X.getAll()`: without
\* forceRefresh DataCache.get is asked first and has nothing
LoadRequest(key, forceRefresh) ==
    /\ Len(loads) < MaxLoads
    /\ IF forceRefresh
       THEN UNCHANGED <<cache, lastCacheOp>>
       ELSE /\ CacheGet(cache, key, clock) = Null
            /\ cache' = CacheAfterGet(cache, key, clock)
            /\ lastCacheOp' = CacheOp("get", key)
    /\ loads' = Append(loads, [key |-> key, response |-> Null])
    /\ lastLoad' = [key |-> key, forceRefresh |-> forceRefresh, step |-> "request",
                    result |-> Null]
    /\ UNCHANGED <<clock, written, serverData, appData,
                   aggVars, vanillaVars, reactVars, usersVars, errVars, productVars, storeVars, accountVars, stockVars, tmVars, sessionVars>>

\* The server answers a request with the collection as it is then
ServerAnswers(i) ==
    /\ i \in DOMAIN loads
    /\ loads[i].response = Null
    /\ loads' = [loads EXCEPT ![i].response = Responses[serverData[loads[i].key]]]
    /\ lastLoad' = [key |-> loads[i].key, forceRefresh |-> FALSE,
                    step |-> "answered", result |-> Null]
    /\ UNCHANGED <<serverData, appData, cacheVars,
                   aggVars, vanillaVars, reactVars, usersVars, errVars, productVars, storeVars, accountVars, stockVars, tmVars, sessionVars>>

\* DataLoader.loadX after the await: AppState.data.X and the cache entry are
\* set from the response
LoadResolved(i) ==
    /\ i \in DOMAIN loads
    /\ loads[i].response # Null
    /\ LET key == loads[i].key
           response == loads[i].response
       IN /\ appData' = [appData EXCEPT ![key] = response]
          /\ cache' = CacheSet(cache, key, response, ExpiryOf(key), clock)
          /\ written' = [written EXCEPT ![key] =
                            [set |-> TRUE, data |-> response, at |-> clock,
                             minutes |-> ExpiryOf(key)]]
          /\ lastCacheOp' = CacheOp("set", key)
          /\ lastLoad' = [key |-> key, forceRefresh |-> FALSE,
                          step |-> "resolved", result |-> response]
    /\ loads' = RemoveAt(loads, i)
    /\ heldOver' = heldOver \ {<<"cache", loads[i].key>>, <<"data", loads[i].key>>}
    /\ UNCHANGED <<clock, serverData,
                   aggVars, vanillaVars, reactVars, usersVars, errVars, productVars, storeVars, accountVars, stockVars, tmVars>>

\* DataLoader.loadX with the request failing: the error is logged and thrown on
LoadRejected(i) ==
    /\ i \in DOMAIN loads
    /\ loads' = RemoveAt(loads, i)
    /\ lastLoad' = [key |-> loads[i].key, forceRefresh |-> FALSE,
                    step |-> "rejected", result |-> Null]
    /\ UNCHANGED <<serverData, appData, cacheVars,
                   aggVars, vanillaVars, reactVars, usersVars, errVars, productVars, storeVars, accountVars, stockVars, tmVars, sessionVars>>

\* A create, update or delete through API.users / API.products /
\* API.transactions succeeds: the collection on the server changes, and the
\* call returns the response without touching DataCache or AppState.data
WriteSucceeds(key) ==
    /\ serverData[key] <= MaxWrites
    /\ serverData' = [serverData EXCEPT ![key] = serverData[key] + 1]
    /\ lastLoad' = [key |-> key, forceRefresh |-> FALSE, step |-> "write",
                    result |-> Null]
    /\ UNCHANGED <<appData, loads, cacheVars,
                   aggVars, vanillaVars, reactVars, usersVars, errVars, productVars, storeVars, accountVars, stockVars, tmVars, sessionVars>>

LoaderNext ==
    \/ Tick
    \/ \E key \in LoaderKeys : LoadFromCache(key)
    \/ \E key \in LoaderKeys, forceRefresh \in BOOLEAN : LoadRequest(key, forceRefresh)
    \/ \E i \in 1..MaxLoads : ServerAnswers(i)
    \/ \E i \in 1..MaxLoads : LoadResolved(i)
    \/ \E i \in 1..MaxLoads : LoadRejected(i)
    \/ \E key \in LoaderKeys : WriteSucceeds(key)

-----------------------------------------------------------------------------
(* The React variant: AuthProvider and AppContent (App.tsx) *)

\* The Firebase accounts and the users/{uid} document of each
Uids == {"uid-active", "uid-inactive", "uid-suspended"}
UserDoc(uid) ==
    CASE uid = "uid-active" -> [id |-> uid, role |-> "admin", status |-> "active"]
      [] uid = "uid-inactive" -> [id |-> uid, role |-> "cashier", status |-> "inactive"]
      [] uid = "uid-suspended" -> [id |-> uid, role |-> "manager", status |-> "suspended"]
NullProfile == [id |-> Null, role |-> Null, status |-> Null]
\* getDoc: the snapshot exists, does not exist, or the read is rejected
GetDocOutcomes == {"exists", "missing", "throws"}

\* Firebase calls the onAuthStateChanged observer when the uid of
\* auth.currentUser changes
Notify(events, old, new) == IF old = new THEN events ELSE Append(events, new)

\* what AppContent renders
AppContent ==
    IF loading THEN "spinner"
    ELSE IF user = Null \/ userProfile = NullProfile THEN "login"
    ELSE "pages"

IdleSignIn == [pc |-> "idle", uid |-> Null]

\* `sessions`: the persisted sessions Firebase may restore at start-up
ReactInit(sessions) ==
    /\ fbUser \in sessions
    /\ authEvents = <<fbUser>>
    /\ listenerTasks = <<>>
    /\ user = Null
    /\ userProfile = NullProfile
    /\ loading = TRUE
    /\ signIns = [slot \in 1..MaxSignIns |-> IdleSignIn]
    /\ signOuts = 0

\* The onAuthStateChanged callback up to `await getDoc`; with no user it
\* runs to its end
ListenerCalled ==
    /\ authEvents # <<>>
    /\ LET firebaseUser == Head(authEvents)
       IN IF firebaseUser # Null
          THEN /\ user' = firebaseUser
               /\ listenerTasks' = Append(listenerTasks, firebaseUser)
               /\ UNCHANGED <<userProfile, loading>>
          ELSE /\ user' = Null
               /\ userProfile' = NullProfile
               /\ loading' = FALSE
               /\ UNCHANGED listenerTasks
    /\ authEvents' = Tail(authEvents)
    /\ UNCHANGED <<fbUser, signIns, signOuts, notReact>>

\* The onAuthStateChanged callback after getDoc: the profile is stored as
\* read, whatever its status; then, in the finally block, setLoading(false)
ListenerDocSettled(i) ==
    /\ i \in DOMAIN listenerTasks
    /\ \E outcome \in GetDocOutcomes :
          userProfile' = IF outcome = "exists" THEN UserDoc(listenerTasks[i])
                         ELSE NullProfile
    /\ loading' = FALSE
    /\ listenerTasks' = RemoveAt(listenerTasks, i)
    /\ UNCHANGED <<fbUser, authEvents, user, signIns, signOuts, notReact>>

\* The login page calls signIn(email, password): up to
\* `await signInWithEmailAndPassword`
SignInSubmit(slot) ==
    /\ AppContent = "login"
    /\ signIns[slot] = IdleSignIn
    /\ \E uid \in Uids :
          signIns' = [signIns EXCEPT ![slot] = [pc |-> "auth", uid |-> uid]]
    /\ UNCHANGED <<fbUser, authEvents, listenerTasks, user, userProfile, loading,
                   signOuts, notReact>>

\* signIn: Firebase rejects the credentials; the catch returns the error
SignInRejected(slot) ==
    /\ signIns[slot].pc = "auth"
    /\ signIns' = [signIns EXCEPT ![slot] = IdleSignIn]
    /\ UNCHANGED <<fbUser, authEvents, listenerTasks, user, userProfile, loading,
                   signOuts, notReact>>

\* signIn: Firebase accepts the credentials; up to `await getDoc`
SignInAuthenticated(slot) ==
    /\ signIns[slot].pc = "auth"
    /\ Len(authEvents) + Len(listenerTasks) < MaxListeners
    /\ fbUser' = signIns[slot].uid
    /\ authEvents' = Notify(authEvents, fbUser, signIns[slot].uid)
    /\ signIns' = [signIns EXCEPT ![slot].pc = "getDoc"]
    /\ UNCHANGED <<listenerTasks, user, userProfile, loading, signOuts, notReact>>

\* signIn after getDoc: setUserProfile(profileData) comes before the status
\* check; an account that is not active, or has no profile, is signed out
SignInDocSettled(slot) ==
    /\ signIns[slot].pc = "getDoc"
    /\ \E outcome \in GetDocOutcomes :
          LET profileData == UserDoc(signIns[slot].uid)
          IN CASE outcome = "exists" ->
                    /\ userProfile' = profileData
                    /\ signIns' = IF profileData.status # "active"
                                  THEN [signIns EXCEPT ![slot].pc = "signOut"]
                                  ELSE [signIns EXCEPT ![slot] = IdleSignIn]
               [] outcome = "missing" ->
                    /\ signIns' = [signIns EXCEPT ![slot].pc = "signOut"]
                    /\ UNCHANGED userProfile
               [] outcome = "throws" ->
                    /\ signIns' = [signIns EXCEPT ![slot] = IdleSignIn]
                    /\ UNCHANGED userProfile
    /\ UNCHANGED <<fbUser, authEvents, listenerTasks, user, loading, signOuts,
                   notReact>>

\* signIn: the firebaseSignOut of a refused account resolves and the error
\* is returned
SignInSignedOut(slot) ==
    /\ signIns[slot].pc = "signOut"
    /\ fbUser' = Null
    /\ authEvents' = Notify(authEvents, fbUser, Null)
    /\ signIns' = [signIns EXCEPT ![slot] = IdleSignIn]
    /\ UNCHANGED <<listenerTasks, user, userProfile, loading, signOuts, notReact>>

\* signIn: that firebaseSignOut is rejected; the catch returns an error
SignInSignOutFails(slot) ==
    /\ signIns[slot].pc = "signOut"
    /\ signIns' = [signIns EXCEPT ![slot] = IdleSignIn]
    /\ UNCHANGED <<fbUser, authEvents, listenerTasks, user, userProfile, loading,
                   signOuts, notReact>>

\* The sidebar's sign-out button: signOut up to `await firebaseSignOut`
SignOutClick ==
    /\ AppContent = "pages"
    /\ signOuts < MaxSignOuts
    /\ signOuts' = signOuts + 1
    /\ UNCHANGED <<fbUser, authEvents, listenerTasks, user, userProfile, loading,
                   signIns, notReact>>

\* signOut after firebaseSignOut: setUser(null), setUserProfile(null)
SignOutDone ==
    /\ signOuts > 0
    /\ signOuts' = signOuts - 1
    /\ fbUser' = Null
    /\ authEvents' = Notify(authEvents, fbUser, Null)
    /\ user' = Null
    /\ userProfile' = NullProfile
    /\ UNCHANGED <<listenerTasks, loading, signIns, notReact>>

\* signOut with firebaseSignOut rejected: the error is logged
SignOutFails ==
    /\ signOuts > 0
    /\ signOuts' = signOuts - 1
    /\ UNCHANGED <<fbUser, authEvents, listenerTasks, user, userProfile, loading,
                   signIns, notReact>>

ReactNext ==
    \/ ListenerCalled
    \/ \E i \in 1..MaxListeners : ListenerDocSettled(i)
    \/ \E slot \in 1..MaxSignIns : SignInSubmit(slot)
    \/ \E slot \in 1..MaxSignIns : SignInRejected(slot)
    \/ \E slot \in 1..MaxSignIns : SignInAuthenticated(slot)
    \/ \E slot \in 1..MaxSignIns : SignInDocSettled(slot)
    \/ \E slot \in 1..MaxSignIns : SignInSignedOut(slot)
    \/ \E slot \in 1..MaxSignIns : SignInSignOutFails(slot)
    \/ SignOutClick
    \/ SignOutDone
    \/ SignOutFails

-----------------------------------------------------------------------------
(* The React variant: UserManagement (components/UserManagement.tsx) *)

\* The staff accounts the server holds at the start; the role of each.  The
\* three ids stand for one listed user of each role.
StaffIds == {"staff-admin", "staff-manager", "staff-cashier"}
StaffUser(id) ==
    CASE id = "staff-admin" -> [id |-> id, role |-> "admin"]
      [] id = "staff-manager" -> [id |-> id, role |-> "manager"]
      [] id = "staff-cashier" -> [id |-> id, role |-> "cashier"]
ResponseOutcomes == {"ok", "not-ok", "throws"}
NoUserRequest == [method |-> Null, id |-> Null, role |-> Null, body |-> Null]

\* roles, in the order of the array
roles == <<"admin", "manager", "cashier">>
\* formData.role after useState and after every reset
InitialFormRole == "cashier"

\* canManageUser(user), with userProfile?.role the role of the session
canManageUserAnyone(role, u) ==
    role = "admin" \/ role = "manager"
canManageUser(role, u) ==
    IF role = "admin" THEN TRUE
    ELSE IF role = "manager" /\ u.role = "cashier" THEN TRUE
    ELSE FALSE

\* the options of the role select of both forms:
\* roles.filter(role => userProfile?.role === 'admin' || role.value === 'cashier')
RoleOptions(role) ==
    {roles[i] : i \in {j \in DOMAIN roles : role = "admin" \/ roles[j] = "cashier"}}

\* The edit form evaluates canManageUser(selectedUser) when it renders: with
\* selectedUser null that reads null.role unless the session is an admin's,
\* and the render throws
RenderThrows == showEditModal /\ selectedUser = Null /\ sessionRole # "admin"
\* the page behind the modals can be clicked
PageShown == ~usersLoading /\ ~RenderThrows
                /\ ~showAddModal /\ ~showEditModal /\ ~showDeleteModal
InFlight == pendingFetches + Len(pendingDeletes) + Len(pendingSaves)

\* The component mounts (AppContent renders it for admin and manager) and
\* its effect calls fetchUsers
UsersInit(sessionRoles) ==
    /\ sessionRole \in sessionRoles
    /\ serverUsers = StaffIds
    /\ users = {}
    /\ usersLoading = TRUE
    /\ showDeleteModal = FALSE
    /\ showAddModal = FALSE
    /\ showEditModal = FALSE
    /\ formRole = InitialFormRole
    /\ selectedUser = Null
    /\ pendingFetches = 1
    /\ pendingDeletes = <<>>
    /\ pendingSaves = <<>>
    /\ lastUserRequest = NoUserRequest

\* fetchUsers after its fetch: setUsers on response.ok, and in the finally
\* block setLoading(false)
FetchUsersSettled ==
    /\ pendingFetches > 0
    /\ pendingFetches' = pendingFetches - 1
    /\ \E outcome \in ResponseOutcomes :
          users' = IF outcome = "ok" THEN serverUsers ELSE users
    /\ usersLoading' = FALSE
    /\ UNCHANGED <<sessionRole, serverUsers, showDeleteModal, selectedUser,
                   pendingDeletes, lastUserRequest, showAddModal, showEditModal,
                   formRole, pendingSaves, notUsers>>

\* The Add User button, rendered under userProfile?.role === 'admin'
ShowAddUserModal ==
    /\ PageShown
    /\ sessionRole = "admin"
    /\ showAddModal' = TRUE
    /\ UNCHANGED <<sessionRole, serverUsers, users, usersLoading, showDeleteModal,
                   selectedUser, pendingFetches, pendingDeletes, lastUserRequest,
                   showEditModal, formRole, pendingSaves, notUsers>>

\* openEditModal(user), from the edit button of a listed user; the button is
\* rendered under canManageUser(user)
openEditUserModal(id) ==
    /\ PageShown
    /\ id \in users
    /\ canManageUser(sessionRole, StaffUser(id))
    /\ selectedUser' = id
    /\ formRole' = StaffUser(id).role
    /\ showEditModal' = TRUE
    /\ UNCHANGED <<sessionRole, serverUsers, users, usersLoading, showDeleteModal,
                   pendingFetches, pendingDeletes, lastUserRequest, showAddModal,
                   pendingSaves, notUsers>>

\* openDeleteModal(user), from the delete button of a listed user; the
\* button is rendered under canManageUser(user)
openDeleteModal(id) ==
    /\ PageShown
    /\ id \in users
    /\ canManageUser(sessionRole, StaffUser(id))
    /\ selectedUser' = id
    /\ showDeleteModal' = TRUE
    /\ UNCHANGED <<sessionRole, serverUsers, users, usersLoading, pendingFetches,
                   pendingDeletes, lastUserRequest, showAddModal, showEditModal,
                   formRole, pendingSaves, notUsers>>

\* The role select of the add form and of the edit form; the one of the
\* edit form is disabled unless canManageUser(selectedUser)
SelectRole(role) ==
    /\ ~usersLoading
    /\ ~RenderThrows
    /\ \/ showAddModal
       \/ /\ showEditModal
          /\ selectedUser # Null
          /\ canManageUser(sessionRole, StaffUser(selectedUser))
    /\ role \in RoleOptions(sessionRole)
    /\ formRole' = role
    /\ UNCHANGED <<sessionRole, serverUsers, users, usersLoading, showDeleteModal,
                   selectedUser, pendingFetches, pendingDeletes, lastUserRequest,
                   showAddModal, showEditModal, pendingSaves, notUsers>>

\* The Cancel button of the add modal and of the edit modal: the modal is
\* hidden, formData and selectedUser stay
CancelSave ==
    /\ ~usersLoading
    /\ ~RenderThrows
    /\ showAddModal \/ showEditModal
    /\ showAddModal' = FALSE
    /\ showEditModal' = FALSE
    /\ UNCHANGED <<sessionRole, serverUsers, users, usersLoading, showDeleteModal,
                   selectedUser, pendingFetches, pendingDeletes, lastUserRequest,
                   formRole, pendingSaves, notUsers>>

\* The Cancel button of the delete modal
CancelDelete ==
    /\ ~usersLoading
    /\ showDeleteModal
    /\ showDeleteModal' = FALSE
    /\ UNCHANGED <<sessionRole, serverUsers, users, usersLoading, selectedUser,
                   pendingFetches, pendingDeletes, lastUserRequest, showAddModal,
                   showEditModal, formRole, pendingSaves, notUsers>>

\* The add form is submitted: handleAddUser up to its fetch, a POST of
\* formData to /auth/signup
handleAddUser ==
    /\ ~usersLoading
    /\ showAddModal
    /\ InFlight < MaxRequests
    /\ pendingSaves' = Append(pendingSaves, "POST")
    /\ lastUserRequest' = [method |-> "POST", id |-> Null, role |-> sessionRole,
                           body |-> formRole]
    /\ UNCHANGED <<sessionRole, serverUsers, users, usersLoading, showDeleteModal,
                   selectedUser, pendingFetches, pendingDeletes, showAddModal,
                   showEditModal, formRole, notUsers>>

\* The edit form is submitted: handleEditUser up to its fetch, a PUT of
\* name, role and status to /users/<selectedUser.id>.  With selectedUser null
\* the URL cannot be built and the catch block alerts.
handleEditUser ==
    /\ ~usersLoading
    /\ showEditModal
    /\ selectedUser # Null
    /\ InFlight < MaxRequests
    /\ pendingSaves' = Append(pendingSaves, "PUT")
    /\ lastUserRequest' = [method |-> "PUT", id |-> Null, role |-> sessionRole,
                           body |-> formRole]
    /\ UNCHANGED <<sessionRole, serverUsers, users, usersLoading, showDeleteModal,
                   selectedUser, pendingFetches, pendingDeletes, showAddModal,
                   showEditModal, formRole, notUsers>>

\* handleAddUser and handleEditUser after the fetch: on response.ok the modal
\* closes, formData is reset and fetchUsers is called; otherwise an alert.
\* What the server makes of a signup or an update is outside these sources:
\* the ids it holds, one for each role, stay.
SaveSettled(i) ==
    /\ i \in DOMAIN pendingSaves
    /\ pendingSaves' = RemoveAt(pendingSaves, i)
    /\ \E outcome \in ResponseOutcomes :
          IF outcome = "ok"
          THEN /\ IF pendingSaves[i] = "POST"
                  THEN showAddModal' = FALSE /\ UNCHANGED <<showEditModal, selectedUser>>
                  ELSE showEditModal' = FALSE /\ selectedUser' = Null
                                              /\ UNCHANGED showAddModal
               /\ formRole' = InitialFormRole
               /\ pendingFetches' = pendingFetches + 1
          ELSE UNCHANGED <<showAddModal, showEditModal, selectedUser, formRole,
                           pendingFetches>>
    /\ UNCHANGED <<sessionRole, serverUsers, users, usersLoading, showDeleteModal, pendingDeletes,
                   lastUserRequest, notUsers>>

\* The Delete User button of the modal: handleDeleteUser up to its fetch,
\* a DELETE of /users/<selectedUser.id>.  With selectedUser null the URL
\* cannot be built and the catch block alerts.
DeleteClick ==
    /\ ~usersLoading
    /\ showDeleteModal
    /\ selectedUser # Null
    /\ InFlight < MaxRequests
    /\ pendingDeletes' = Append(pendingDeletes, selectedUser)
    /\ lastUserRequest' = [method |-> "DELETE", id |-> selectedUser,
                           role |-> sessionRole, body |-> Null]
    /\ UNCHANGED <<sessionRole, serverUsers, users, usersLoading, showDeleteModal,
                   selectedUser, pendingFetches, showAddModal, showEditModal,
                   formRole, pendingSaves, notUsers>>

\* handleDeleteUser after its fetch: on response.ok the modal closes and
\* fetchUsers is called; otherwise an alert
DeleteSettled(i) ==
    /\ i \in DOMAIN pendingDeletes
    /\ pendingDeletes' = RemoveAt(pendingDeletes, i)
    /\ \E outcome \in ResponseOutcomes :
          IF outcome = "ok"
          THEN /\ serverUsers' = serverUsers \ {pendingDeletes[i]}
               /\ showDeleteModal' = FALSE
               /\ selectedUser' = Null
               /\ pendingFetches' = pendingFetches + 1
          ELSE UNCHANGED <<serverUsers, showDeleteModal, selectedUser,
                           pendingFetches>>
    /\ UNCHANGED <<sessionRole, users, usersLoading, lastUserRequest, showAddModal,
                   showEditModal, formRole, pendingSaves, notUsers>>

UsersNext ==
    \/ FetchUsersSettled
    \/ ShowAddUserModal
    \/ \E id \in StaffIds : openEditUserModal(id)
    \/ \E id \in StaffIds : openDeleteModal(id)
    \/ \E role \in {roles[i] : i \in DOMAIN roles} : SelectRole(role)
    \/ CancelSave
    \/ CancelDelete
    \/ handleAddUser
    \/ handleEditUser
    \/ \E i \in 1..MaxRequests : SaveSettled(i)
    \/ DeleteClick
    \/ \E i \in 1..MaxRequests : DeleteSettled(i)

-----------------------------------------------------------------------------
(* The React variant: ProductManagement (components/ProductManagement.tsx) *)

ProductIds == {"p1", "p2"}
\* formData: the initial (reset) value, what openEditModal fills in from a
\* product, and what the user typed
EmptyForm == "empty"
FormOf(product) == "of-product"
NoModal(c) == ~c.showAddModal /\ ~c.showEditModal /\ ~c.showDeleteModal
\* a request in flight; answered with the products of the response once
\* the server has answered a GET /products
\* the server has answered a GET /products; overtaken records that the response
\* of a request issued later has been applied already
FetchRequest == [kind |-> "fetch", id |-> Null, answered |-> FALSE, products |-> {},
                 overtaken |-> FALSE]
WriteRequest(kind, id) == [kind |-> kind, id |-> id, answered |-> FALSE, products |-> {},
                           overtaken |-> FALSE]
\* a variant that drops the response of an overtaken request
AppliedProductsUnlessOvertaken(c, request) ==
    IF request.overtaken THEN c.products ELSE request.products
\* setProducts(data.products || [])
AppliedProducts(c, request) == request.products
PmStep(step, alerts) == [step |-> step, alerts |-> alerts, late |-> FALSE]

\* The component mounts and its effect calls fetchProducts
ProductsInit ==
    /\ pm = [products |-> {}, loading |-> TRUE, showAddModal |-> FALSE,
             showEditModal |-> FALSE, showDeleteModal |-> FALSE,
             selectedProduct |-> Null, formData |-> EmptyForm]
    /\ serverProducts = {"p1"}
    /\ productRequests = <<FetchRequest>>
    /\ pmLast = PmStep("other", 0)

\* The server answers a GET /products with the list as it is then
ProductsAnswered(i) ==
    /\ i \in DOMAIN productRequests
    /\ productRequests[i].kind = "fetch"
    /\ ~productRequests[i].answered
    /\ productRequests' = [productRequests EXCEPT ![i].answered = TRUE,
                                                  ![i].products = serverProducts]
    /\ pmLast' = PmStep("other", 0)
    /\ UNCHANGED <<pm, serverProducts, notProducts>>

\* fetchProducts after its fetch, response.ok: setProducts(data.products),
\* then setLoading(false)
FetchProductsOk(i) ==
    /\ i \in DOMAIN productRequests
    /\ productRequests[i].kind = "fetch"
    /\ productRequests[i].answered
    /\ pm' = [pm EXCEPT !.products = AppliedProducts(pm, productRequests[i]),
                        !.loading = FALSE]
    /\ productRequests' =
          RemoveAt([j \in DOMAIN productRequests |->
                       IF j < i /\ productRequests[j].kind = "fetch"
                       THEN [productRequests[j] EXCEPT !.overtaken = TRUE]
                       ELSE productRequests[j]], i)
    /\ pmLast' = [PmStep("fetched", 0) EXCEPT !.late = productRequests[i].overtaken]
    /\ UNCHANGED <<serverProducts, notProducts>>

\* fetchProducts with a response that is not ok, or the fetch rejected: a
\* console.log, then setLoading(false)
FetchProductsFails(i) ==
    /\ i \in DOMAIN productRequests
    /\ productRequests[i].kind = "fetch"
    /\ pm' = [pm EXCEPT !.loading = FALSE]
    /\ productRequests' = RemoveAt(productRequests, i)
    /\ pmLast' = PmStep("other", 0)
    /\ UNCHANGED <<serverProducts, notProducts>>

\* The Add Product button
OpenAddModal ==
    /\ ~pm.loading /\ NoModal(pm)
    /\ pm' = [pm EXCEPT !.showAddModal = TRUE]
    /\ pmLast' = PmStep("other", 0)
    /\ UNCHANGED <<serverProducts, productRequests, notProducts>>

\* openEditModal(product), from the edit button of a listed product
openEditModal(id) ==
    /\ ~pm.loading /\ NoModal(pm)
    /\ id \in pm.products
    /\ pm' = [pm EXCEPT !.selectedProduct = id, !.formData = FormOf(id),
                        !.showEditModal = TRUE]
    /\ pmLast' = PmStep("other", 0)
    /\ UNCHANGED <<serverProducts, productRequests, notProducts>>

\* openDeleteModal(product), from the delete button of a listed product
openProductDeleteModal(id) ==
    /\ ~pm.loading /\ NoModal(pm)
    /\ id \in pm.products
    /\ pm' = [pm EXCEPT !.selectedProduct = id, !.showDeleteModal = TRUE]
    /\ pmLast' = PmStep("other", 0)
    /\ UNCHANGED <<serverProducts, productRequests, notProducts>>

\* The user types into the form of the add or edit modal
TypeInForm ==
    /\ ~pm.loading
    /\ pm.showAddModal \/ pm.showEditModal
    /\ pm.formData # "typed"
    /\ pm' = [pm EXCEPT !.formData = "typed"]
    /\ pmLast' = PmStep("other", 0)
    /\ UNCHANGED <<serverProducts, productRequests, notProducts>>

\* The Cancel button of the modal that is open
CancelModal ==
    /\ ~pm.loading /\ ~NoModal(pm)
    /\ pm' = [pm EXCEPT !.showAddModal = FALSE, !.showEditModal = FALSE,
                        !.showDeleteModal = FALSE]
    /\ pmLast' = PmStep("other", 0)
    /\ UNCHANGED <<serverProducts, productRequests, notProducts>>

\* A handler up to its fetch; of the requests in flight only a DELETE keeps
\* the id it names, which is what the server's answer depends on.
\* handleEditProduct and handleDeleteProduct read
\* selectedProduct.id inside the try block: with selectedProduct null the
\* TypeError goes to the catch, which alerts, and no request is made
Submit(kind) ==
    /\ ~pm.loading
    /\ CASE kind = "add" -> pm.showAddModal
         [] kind = "edit" -> pm.showEditModal
         [] kind = "delete" -> pm.showDeleteModal
    /\ IF kind # "add" /\ pm.selectedProduct = Null
       THEN /\ pmLast' = PmStep("write-failed", 1)
            /\ UNCHANGED productRequests
       ELSE /\ Len(productRequests) < MaxProductRequests
            /\ productRequests' =
                  Append(productRequests,
                         WriteRequest(kind, IF kind = "delete" THEN pm.selectedProduct
                                            ELSE Null))
            /\ pmLast' = PmStep("other", 0)
    /\ UNCHANGED <<pm, serverProducts, notProducts>>

\* what a write that the server accepts does to the products it holds
ServerApplies(ids, request) ==
    CASE request.kind = "add" ->
            IF ProductIds \ ids = {} THEN ids
            ELSE ids \cup {CHOOSE id \in ProductIds \ ids :
                              \A other \in ProductIds \ ids : id = "p1" \/ other # "p1"}
      [] request.kind = "edit" -> ids
      [] request.kind = "delete" -> ids \ {request.id}

\* handleAddProduct / handleEditProduct / handleDeleteProduct after the
\* fetch, response.ok: the modal closes, the selection and the form are
\* reset as the handler does, and fetchProducts is called
WriteOk(i) ==
    /\ i \in DOMAIN productRequests
    /\ productRequests[i].kind # "fetch"
    /\ LET request == productRequests[i]
       IN /\ serverProducts' = ServerApplies(serverProducts, request)
          /\ pm' = CASE request.kind = "add" ->
                          [pm EXCEPT !.showAddModal = FALSE, !.formData = EmptyForm]
                     [] request.kind = "edit" ->
                          [pm EXCEPT !.showEditModal = FALSE, !.selectedProduct = Null,
                                     !.formData = EmptyForm]
                     [] request.kind = "delete" ->
                          [pm EXCEPT !.showDeleteModal = FALSE, !.selectedProduct = Null]
    /\ productRequests' = Append(RemoveAt(productRequests, i), FetchRequest)
    /\ pmLast' = PmStep("written", 0)
    /\ UNCHANGED notProducts

\* a variant whose failing handler closes the modals
AfterFailedWriteClosing(c) ==
    [c EXCEPT !.showAddModal = FALSE, !.showEditModal = FALSE, !.showDeleteModal = FALSE]
\* the else branch and the catch block of the three handlers call no setter
AfterFailedWrite(c) == c

\* The same handlers with a response that is not ok (alert of its error;
\* should response.json() reject, the alert of the catch instead), or with
\* the fetch rejected (alert of the catch)
WriteFails(i) ==
    /\ i \in DOMAIN productRequests
    /\ productRequests[i].kind # "fetch"
    /\ pm' = AfterFailedWrite(pm)
    /\ productRequests' = RemoveAt(productRequests, i)
    /\ pmLast' = PmStep("write-failed", 1)
    /\ UNCHANGED <<serverProducts, notProducts>>

ProductsNext ==
    \/ \E i \in 1..MaxProductRequests : ProductsAnswered(i)
    \/ \E i \in 1..MaxProductRequests : FetchProductsOk(i)
    \/ \E i \in 1..MaxProductRequests : FetchProductsFails(i)
    \/ OpenAddModal
    \/ \E id \in ProductIds : openEditModal(id)
    \/ \E id \in ProductIds : openProductDeleteModal(id)
    \/ TypeInForm
    \/ CancelModal
    \/ \E kind \in {"add", "edit", "delete"} : Submit(kind)
    \/ \E i \in 1..MaxProductRequests : WriteOk(i)
    \/ \E i \in 1..MaxProductRequests : WriteFails(i)

-----------------------------------------------------------------------------
(* The Firestore services: ProductsService and TransactionsService
   (unnamed/part_004) on the products and transactions collections *)

ProductKeys == {"p1", "p2"}
SaleIds == 1..MaxSales
StockValues == 0..MaxStock
CashierIds == {"u1"}
\* a Partial<Product> / product data, reduced to the stock it carries
ProductData == {[stock |-> s] : s \in StockValues}
\* transactionData: items reduced to the productId of the one item sold
SaleData == {[productId |-> p, cashierId |-> c] : p \in ProductKeys, c \in CashierIds}
\* getCurrentUser(): nobody, or the signed-in user
CurrentUsers == {Null, "u1"}
\* getRecent(limitCount = 10)
RecentLimit == 10
StoreOp(op, ids) == [op |-> op, ids |-> ids]

Without(col, id) == [k \in DOMAIN col \ {id} |-> col[k]]
With(col, id, document) == [k \in DOMAIN col \cup {id} |-> IF k = id THEN document ELSE col[k]]
\* a variant of addDoc that writes over a document of the collection
FirstDocId(col, ids) == CHOOSE id \in ids : id \in DOMAIN col \/ col = << >>
\* addDoc: the id of the new document is one no document of the collection has
NewDocId(col, ids) == CHOOSE id \in ids \ DOMAIN col : TRUE

\* a variant of a sale that takes the sold unit off the product's stock
ProductsAfterSaleDecrementing(col, data) ==
    IF data.productId \in DOMAIN col /\ col[data.productId].stock > 0
    THEN [col EXCEPT ![data.productId].stock = @ - 1]
    ELSE col
\* TransactionsService.create makes one call, addDoc on the transactions
\* collection: the products collection is as it was
ProductsAfterSale(col, data) == col

StoreInit ==
    /\ productDocs = [k \in {"p1"} |-> [stock |-> 1]]
    /\ transactionDocs = << >>
    /\ storeLast = StoreOp("none", {})

\* ProductsService.create
ProductsCreate(data, currentUser) ==
    /\ ProductKeys \ DOMAIN productDocs # {}
    /\ productDocs' = IF currentUser = Null THEN productDocs
                      ELSE With(productDocs, NewDocId(productDocs, ProductKeys),
                                [stock |-> data.stock])
    /\ storeLast' = StoreOp("products.create", {})
    /\ UNCHANGED <<transactionDocs, notStore>>

\* ProductsService.update: updateDoc rejects for a document that does not
\* exist
ProductsUpdate(id, data) ==
    /\ productDocs' = IF id \in DOMAIN productDocs
                      THEN [productDocs EXCEPT ![id].stock = data.stock]
                      ELSE productDocs
    /\ storeLast' = StoreOp("products.update", {})
    /\ UNCHANGED <<transactionDocs, notStore>>

\* ProductsService.delete
ProductsDelete(id) ==
    /\ productDocs' = Without(productDocs, id)
    /\ storeLast' = StoreOp("products.delete", {})
    /\ UNCHANGED <<transactionDocs, notStore>>

\* TransactionsService.create: throws without a current user, else addDoc of
\* the data with timestamp = now and status = 'completed'.  now is never
\* earlier than a stored timestamp.
TransactionsCreate(data, currentUser, now) ==
    /\ Cardinality(DOMAIN transactionDocs) < MaxSales
    /\ \A i \in DOMAIN transactionDocs : transactionDocs[i].timestamp <= now
    /\ IF currentUser = Null
       THEN UNCHANGED <<transactionDocs, productDocs>>
       ELSE /\ transactionDocs' =
                  With(transactionDocs, NewDocId(transactionDocs, SaleIds),
                       [productId |-> data.productId, cashierId |-> data.cashierId,
                        timestamp |-> now, status |-> "completed"])
            /\ productDocs' = ProductsAfterSale(productDocs, data)
    /\ storeLast' = StoreOp("transactions.create", {})
    /\ UNCHANGED notStore

\* the ids of the documents the four queries of TransactionsService return
Newest(col, n) ==
    {i \in DOMAIN col :
        Cardinality({j \in DOMAIN col : col[j].timestamp > col[i].timestamp}) < n}
QueryResult(col, op, arg) ==
    CASE op = "transactions.getAll" -> DOMAIN col
      [] op = "transactions.getById" -> DOMAIN col \cap {arg}
      [] op = "transactions.getByCashier" -> {i \in DOMAIN col : col[i].cashierId = arg}
      [] op = "transactions.getRecent" -> Newest(col, RecentLimit)

\* TransactionsService.getAll, getById, getByCashier, getRecent
TransactionsQuery(op, arg) ==
    /\ storeLast' = StoreOp(op, QueryResult(transactionDocs, op, arg))
    /\ UNCHANGED <<productDocs, transactionDocs, notStore>>

StoreNext ==
    \/ \E data \in ProductData, currentUser \in CurrentUsers : ProductsCreate(data, currentUser)
    \/ \E id \in ProductKeys, data \in ProductData : ProductsUpdate(id, data)
    \/ \E id \in ProductKeys : ProductsDelete(id)
    \/ \E data \in SaleData, currentUser \in CurrentUsers, now \in Instants :
          TransactionsCreate(data, currentUser, now)
    \/ TransactionsQuery("transactions.getAll", Null)
    \/ \E id \in SaleIds : TransactionsQuery("transactions.getById", id)
    \/ \E c \in CashierIds : TransactionsQuery("transactions.getByCashier", c)
    \/ TransactionsQuery("transactions.getRecent", Null)

-----------------------------------------------------------------------------
(* Creating users: AuthService.createUser (unnamed/part_003) and
   UsersService.create (unnamed/part_004) on Firebase Auth and the users
   collection *)

\* the uids Firebase Auth gives out and the ids addDoc generates: both are
\* random strings, of different alphabets and lengths
AuthUids == {"uid-1", "uid-2"}
AutoIds == {"auto-1", "auto-2"}
Emails == {"ani@shop", "budi@shop"}
\* CreateUserData / Omit<User, 'id' | 'createdAt'>, reduced to email and role
NewUserData == {[email |-> e, role |-> r] : e \in Emails, r \in {"cashier", "manager"}}
NoLookup == [uid |-> Null, found |-> FALSE]
NoSignIn == [uid |-> Null, ended |-> Null]
\* the null getUserProfile returns
NoUserDoc == [email |-> Null, role |-> Null]
\* the status of a profile document; createUser writes userData.status || 'active'
ProfileStatuses == {"active", "inactive"}

AccountsInit ==
    /\ authAccounts = << >>
    /\ userDocs = << >>
    /\ signInLookup = NoLookup
    /\ authCurrentUser = Null
    /\ lastSignIn = NoSignIn

\* AuthService.createUser: createUserWithEmailAndPassword (rejects an email
\* in use), updateProfile, then setDoc(doc(db, 'users', firebaseUser.uid)).
\* When updateProfile or setDoc rejects the account stays without a profile.
\* Firebase signs the new account in.
AuthCreateUser(userData, profileStored) ==
    /\ AuthUids \ DOMAIN authAccounts # {}
    /\ \A uid \in DOMAIN authAccounts : authAccounts[uid] # userData.email
    /\ LET uid == NewDocId(authAccounts, AuthUids)
       IN /\ authAccounts' = With(authAccounts, uid, userData.email)
          /\ userDocs' = IF profileStored
                         THEN With(userDocs, uid, [email |-> userData.email,
                                                   role |-> userData.role])
                         ELSE userDocs
          /\ authCurrentUser' = uid
    /\ lastSignIn' = NoSignIn
    /\ UNCHANGED <<signInLookup, notAccounts>>

\* UsersService.create: throws without a current user, else
\* addDoc(collection(db, 'users'), {...userData, createdAt, lastActive})
UsersCreate(userData, currentUser) ==
    /\ AutoIds \ DOMAIN userDocs # {}
    /\ userDocs' = IF currentUser = Null THEN userDocs
                   ELSE With(userDocs, NewDocId(userDocs, AutoIds),
                             [email |-> userData.email, role |-> userData.role])
    /\ UNCHANGED <<authAccounts, signInLookup, authCurrentUser, lastSignIn, notAccounts>>

\* AuthProvider.signIn after signInWithEmailAndPassword:
\* getDoc(doc(db, 'users', firebaseUser.uid)) and userDocSnap.exists()
SignInLookup(uid) ==
    /\ uid \in DOMAIN authAccounts
    /\ signInLookup' = [uid |-> uid, found |-> uid \in DOMAIN userDocs]
    /\ UNCHANGED <<authAccounts, userDocs, authCurrentUser, lastSignIn, notAccounts>>

\* AuthService.getUserProfile(uid): the document, or null when there is none
\* or getDoc rejects
getUserProfile(docs, uid, readOk) ==
    IF readOk /\ uid \in DOMAIN docs THEN docs[uid] ELSE NoUserDoc

\* AuthService.signIn with credentials signInWithEmailAndPassword accepts:
\* the profile is read; without one the call throws; with a status other
\* than 'active' signOut(auth) is awaited and the call throws; else
\* updateLastActive and the user and profile are returned.  A signOut that
\* rejects ends the call in the catch block as well.  `status` is the status
\* the profile document holds when it is read.
AuthServiceSignIn(uid, status, readOk, signOutOk) ==
    /\ uid \in DOMAIN authAccounts
    /\ LET profile == getUserProfile(userDocs, uid, readOk)
       IN IF profile = NoUserDoc
          THEN /\ authCurrentUser' = uid
               /\ lastSignIn' = [uid |-> uid, ended |-> "thrown"]
          ELSE IF status # "active"
          THEN /\ authCurrentUser' = IF signOutOk THEN Null ELSE uid
               /\ lastSignIn' = [uid |-> uid, ended |-> "thrown"]
          ELSE /\ authCurrentUser' = uid
               /\ lastSignIn' = [uid |-> uid, ended |-> "returned"]
    /\ UNCHANGED <<authAccounts, userDocs, signInLookup, notAccounts>>

AccountsNext ==
    \/ \E userData \in NewUserData, profileStored \in BOOLEAN :
          AuthCreateUser(userData, profileStored)
    \/ \E userData \in NewUserData, currentUser \in CurrentUsers :
          UsersCreate(userData, currentUser)
    \/ \E uid \in AuthUids : SignInLookup(uid)
    \/ \E uid \in AuthUids, status \in ProfileStatuses, readOk \in BOOLEAN,
          signOutOk \in BOOLEAN : AuthServiceSignIn(uid, status, readOk, signOutOk)

-----------------------------------------------------------------------------
(* Stock levels: Utils.getStockStatus (unnamed/part_004), the stock warning
   of ProductManagement and useLowStockProducts (unnamed/part_002) *)

StockLevels == -1..MaxStockLevel
ShelfKeys == <<"p1", "p2">>
\* useLowStockProducts(threshold: number = 10)
DefaultThreshold == 10

\* a variant that draws the line below 10
getStockStatusBelowTen(stock) ==
    IF stock = 0 THEN "out-of-stock"
    ELSE IF stock < 10 THEN "low-stock"
    ELSE "in-stock"
\* Utils.getStockStatus
getStockStatus(stock) ==
    IF stock = 0 THEN "out-of-stock"
    ELSE IF stock <= 10 THEN "low-stock"
    ELSE "in-stock"
\* ProductManagement: product.stock <= 10 && <AlertTriangle />
StockWarning(stock) == stock <= 10
\* the ids of useLowStockProducts: where('stock', '<=', threshold),
\* orderBy('stock', 'asc')
LowStockProducts(stocks, threshold) ==
    LET low == SelectSeq(ShelfKeys, LAMBDA id : stocks[id] <= threshold)
    IN StableSort(low, LAMBDA a, b : stocks[a] < stocks[b])
\* what the screens show of the stocks
StockView(stocks) ==
    [status |-> [id \in DOMAIN stocks |-> getStockStatus(stocks[id])],
     warning |-> [id \in DOMAIN stocks |-> StockWarning(stocks[id])],
     lowStock |-> LowStockProducts(stocks, DefaultThreshold)]

StockInit ==
    /\ shelf = [id \in {"p1", "p2"} |-> 0]
    /\ stockView = StockView(shelf)

\* A product update sets the stock of a product and the screens render again
SetStock(id, stock) ==
    /\ shelf[id] # stock
    /\ shelf' = [shelf EXCEPT ![id] = stock]
    /\ stockView' = StockView(shelf')
    /\ UNCHANGED notStock

StockNext == \E id \in DOMAIN shelf, stock \in StockLevels : SetStock(id, stock)

-----------------------------------------------------------------------------
(* The React variant: TransactionManagement, getFilteredTransactions
   (components/UserManagement.tsx).  A string is the sequence of its
   characters; a timestamp is a count of ticks, TicksPerDay to the day. *)

\* String.prototype.toLowerCase, on the letters the strings here hold
LowerChar(c) ==
    CASE c = "A" -> "a"
      [] c = "B" -> "b"
      [] c = "C" -> "c"
      [] c = "N" -> "n"
      [] c = "R" -> "r"
      [] c = "T" -> "t"
      [] c = "U" -> "u"
      [] OTHER -> c
toLowerCase(str) == [i \in 1..Len(str) |-> LowerChar(str[i])]
\* a variant of includes that only looks at the start of the string
StartsWith(str, term) ==
    Len(term) <= Len(str) /\ SubSeq(str, 1, Len(term)) = term
\* String.prototype.includes
StringIncludes(str, term) ==
    \E k \in 0..(Len(str) - Len(term)) : SubSeq(str, k + 1, k + Len(term)) = term

\* the users GET /users returns
TmUsers == <<[id |-> "u1", name |-> <<"A", "n", "i">>],
             [id |-> "u2", name |-> <<"B", "o">>]>>
UnknownCashier ==
    <<"U", "n", "k", "n", "o", "w", "n", " ", "C", "a", "s", "h", "i", "e", "r">>
\* getCashierName
getCashierName(userList, cashierId) ==
    IF \E i \in 1..Len(userList) : userList[i].id = cashierId
    THEN userList[CHOOSE i \in 1..Len(userList) :
                     /\ userList[i].id = cashierId
                     /\ \A j \in 1..(i - 1) : userList[j].id # cashierId].name
    ELSE UnknownCashier

\* the transactions GET /transactions may return: 30 days, 7 days and one
\* day before the day of the render, on that day, and the day after
Sale(id, cashierId, itemName, paymentMethod, timestamp) ==
    [id |-> id, cashierId |-> cashierId, items |-> <<[name |-> itemName]>>,
     paymentMethod |-> paymentMethod, timestamp |-> timestamp]
RenderDay == 30
SalesCatalogue ==
    { Sale(<<"T", "1">>, "u1", <<"R", "i", "c", "e">>, "cash", 0),
      Sale(<<"T", "2">>, "u2", <<"o", "i", "l">>, "card", (RenderDay - 7) * TicksPerDay),
      Sale(<<"T", "3">>, "u3", <<"R", "i", "c", "e">>, "digital", RenderDay * TicksPerDay - 1),
      Sale(<<"t", "4">>, "u1", <<"B", "r", "a", "n">>, "card", RenderDay * TicksPerDay),
      Sale(<<"T", "5">>, "u2", <<"o", "i", "l">>, "cash", (RenderDay + 1) * TicksPerDay) }
\* the instants of a render: the start of the day and one tick later
Nows == {RenderDay * TicksPerDay, RenderDay * TicksPerDay + 1}
SearchTerms == {<< >>, <<"a">>, <<"T">>, <<"U", "N">>, <<"R", "i">>}
DateFilters == {"all", "today", "week", "month"}
CashierFilters == {"all", "u1", "u3"}
PaymentFilters == {"all", "cash", "card"}

RECURSIVE ListsOf(_, _)
\* the lists of up to n different elements of a set
ListsOf(set, n) ==
    IF n = 0 THEN {<< >>}
    ELSE LET shorter == ListsOf(set, n - 1)
         IN shorter \cup {Append(l, x) : l \in shorter, x \in set}
FetchedLists == {l \in ListsOf(SalesCatalogue, MaxFetched) :
                   \A i, j \in 1..Len(l) : i # j => l[i] # l[j]}

\* Date.prototype.toDateString: the day an instant falls in
toDateString(instant) == instant \div TicksPerDay

\* the callback of transactions.filter
matchesSearch(c, transaction) ==
    \/ StringIncludes(toLowerCase(transaction.id), toLowerCase(c.searchTerm))
    \/ StringIncludes(toLowerCase(getCashierName(c.users, transaction.cashierId)),
                      toLowerCase(c.searchTerm))
    \/ \E i \in 1..Len(transaction.items) :
          StringIncludes(toLowerCase(transaction.items[i].name), toLowerCase(c.searchTerm))
matchesDate(c, transaction, today) ==
    CASE c.dateFilter = "all" -> TRUE
      [] c.dateFilter = "today" -> toDateString(transaction.timestamp) = toDateString(today)
      [] c.dateFilter = "week" -> transaction.timestamp >= today - 7 * TicksPerDay
      [] c.dateFilter = "month" -> transaction.timestamp >= today - 30 * TicksPerDay
matchesCashier(c, transaction) ==
    c.cashierFilter = "all" \/ transaction.cashierId = c.cashierFilter
matchesPayment(c, transaction) ==
    c.paymentFilter = "all" \/ transaction.paymentMethod = c.paymentFilter

\* the comparator turned round
TimestampAscBefore(a, b) == a.timestamp - b.timestamp < 0
\* (a, b) => new Date(b.timestamp).getTime() - new Date(a.timestamp).getTime()
TimestampDescBefore(a, b) == b.timestamp - a.timestamp < 0

getFilteredTransactions(c, today) ==
    StableSort(SelectSeq(c.transactions,
                         LAMBDA t : /\ matchesSearch(c, t)
                                    /\ matchesDate(c, t, today)
                                    /\ matchesCashier(c, t)
                                    /\ matchesPayment(c, t)),
               TimestampDescBefore)

\* a variant that sorts the state array itself
TransactionsSortedInPlace(c) == StableSort(c.transactions, TimestampDescBefore)
\* filter returns a new array and sort sorts that one: the state array stays
TransactionsAfterRender(c) == c.transactions

\* a render at instant today, not before the last one, of the component in
\* state c
Rendered(c, today) ==
    /\ today >= tmNow
    /\ tm' = [c EXCEPT !.transactions = TransactionsAfterRender(c)]
    /\ tmNow' = today
    /\ tmFiltered' = getFilteredTransactions(c, today)

TmInit ==
    /\ tm = [transactions |-> << >>, users |-> << >>, searchTerm |-> << >>,
             dateFilter |-> "all", cashierFilter |-> "all", paymentFilter |-> "all"]
    /\ tmFetched = << >>
    /\ tmNow = RenderDay * TicksPerDay
    /\ tmFiltered = << >>

\* fetchTransactions, response.ok: setTransactions(data.transactions || [])
FetchTransactionsOk(response, today) ==
    /\ tmFetched = << >>
    /\ response # << >>
    /\ tmFetched' = response
    /\ Rendered([tm EXCEPT !.transactions = response], today)
    /\ UNCHANGED notTm

\* fetchUsers, response.ok: setUsers(data.users || [])
FetchTmUsersOk(today) ==
    /\ tm.users = << >>
    /\ Rendered([tm EXCEPT !.users = TmUsers], today)
    /\ UNCHANGED <<tmFetched, notTm>>

\* the search box and the three selects
SetSearchTerm(term, today) ==
    /\ term # tm.searchTerm
    /\ Rendered([tm EXCEPT !.searchTerm = term], today)
    /\ UNCHANGED <<tmFetched, notTm>>
SetDateFilter(value, today) ==
    /\ value # tm.dateFilter
    /\ Rendered([tm EXCEPT !.dateFilter = value], today)
    /\ UNCHANGED <<tmFetched, notTm>>
SetCashierFilter(value, today) ==
    /\ value # tm.cashierFilter
    /\ Rendered([tm EXCEPT !.cashierFilter = value], today)
    /\ UNCHANGED <<tmFetched, notTm>>
SetPaymentFilter(value, today) ==
    /\ value # tm.paymentFilter
    /\ Rendered([tm EXCEPT !.paymentFilter = value], today)
    /\ UNCHANGED <<tmFetched, notTm>>

TmNext ==
    \/ \E today \in Nows, response \in FetchedLists : FetchTransactionsOk(response, today)
    \/ \E today \in Nows : FetchTmUsersOk(today)
    \/ \E today \in Nows, term \in SearchTerms : SetSearchTerm(term, today)
    \/ \E today \in Nows, value \in DateFilters : SetDateFilter(value, today)
    \/ \E today \in Nows, value \in CashierFilters : SetCashierFilter(value, today)
    \/ \E today \in Nows, value \in PaymentFilters : SetPaymentFilter(value, today)

-----------------------------------------------------------------------------
(* The vanilla-script variant: one browser tab over several sessions.
   Auth.handleLogout, Auth.handleLogin and the DataLoader run in the same
   page, so DataCache.cache and window.AppState.data live on from one session
   to the next. *)

SessionInit == heldOver = {}

\* the pages call the DataLoader while the main app is shown
SessionNext ==
    \/ SessionAbsent
    \/ \E slot \in 1..MaxLogins : LoginSubmit(slot)
    \/ \E slot \in 1..MaxLogins : LoginAccepted(slot)
    \/ \E slot \in 1..MaxLogins : LoginProfileSettled(slot)
    \/ LogoutClick
    \/ LogoutDone
    \/ ~dom.mainHidden /\ \E key \in LoaderKeys : LoadFromCache(key)
    \/ ~dom.mainHidden /\ \E key \in LoaderKeys, forceRefresh \in BOOLEAN :
                           LoadRequest(key, forceRefresh)
    \/ \E i \in 1..MaxLoads : ServerAnswers(i)
    \/ \E i \in 1..MaxLoads : LoadResolved(i)

-----------------------------------------------------------------------------
\* The start of each part; the parts a specification does not run stay as
\* they start
ReactIdle == ReactInit({Null})
UsersIdle == UsersInit({"admin"})
InitAgg == AggInit(TimezoneOffsets) /\ VanillaInit /\ ReactIdle /\ UsersIdle /\ ErrInit /\ CacheInit /\ LoaderInit /\ ProductsInit /\ StoreInit /\ AccountsInit /\ StockInit /\ TmInit /\ SessionInit
InitVanilla == AggInit({0}) /\ VanillaInit /\ ReactIdle /\ UsersIdle /\ ErrInit /\ CacheInit /\ LoaderInit /\ ProductsInit /\ StoreInit /\ AccountsInit /\ StockInit /\ TmInit /\ SessionInit
InitReact == AggInit({0}) /\ VanillaInit /\ ReactInit(Uids \cup {Null}) /\ UsersIdle /\ ErrInit /\ CacheInit /\ LoaderInit /\ ProductsInit /\ StoreInit /\ AccountsInit /\ StockInit /\ TmInit /\ SessionInit
InitUsers == AggInit({0}) /\ VanillaInit /\ ReactIdle /\ UsersInit({"admin", "manager"}) /\ ErrInit /\ CacheInit /\ LoaderInit /\ ProductsInit /\ StoreInit /\ AccountsInit /\ StockInit /\ TmInit /\ SessionInit

SpecAgg == InitAgg /\ [][AggNext]_vars
SpecVanilla == InitVanilla /\ [][VanillaNext]_vars
SpecReact == InitReact /\ [][ReactNext]_vars
SpecUsers == InitUsers /\ [][UsersNext]_vars
SpecApi == InitVanilla /\ [][AuthNext \/ ApiRequest]_vars
SpecErr == InitVanilla /\ [][AuthNext \/ HandleRequestError]_vars
SpecCache == InitVanilla /\ [][CacheNext]_vars
SpecLoader == InitVanilla /\ [][LoaderNext]_vars
SpecSession == InitVanilla /\ [][SessionNext]_vars
SpecProducts == InitVanilla /\ [][ProductsNext]_vars
SpecStore == InitVanilla /\ [][StoreNext]_vars
SpecAccounts == InitVanilla /\ [][AccountsNext]_vars
SpecStock == InitVanilla /\ [][StockNext]_vars
SpecTm == InitVanilla /\ [][TmNext]_vars

-----------------------------------------------------------------------------
(* Properties of the sales aggregator *)

IsResult(a) == a.state = "resolved"

\* the calendar month, in months since year 0, that a key "YYYY-MM" names
DigitValue(c) == CharCode(c) - 48
WellFormedMonthKey(key) ==
    /\ Len(key) = 7
    /\ key[5] = "-"
    /\ \A i \in {1, 2, 3, 4, 6, 7} : DigitValue(key[i]) \in 0..9
    /\ DigitValue(key[6]) * 10 + DigitValue(key[7]) \in 1..12
MonthIndexOfKey(key) ==
    (DigitValue(key[1]) * 1000 + DigitValue(key[2]) * 100
       + DigitValue(key[3]) * 10 + DigitValue(key[4])) * 12
      + (DigitValue(key[6]) * 10 + DigitValue(key[7])) - 1

\* the sum of `total` over the transactions of txs whose timestamp falls in
\* local calendar month m
TotalInMonth(txs, tz, m) ==
    LET S[n \in 0..Len(txs)] ==
            IF n = 0 THEN 0
            ELSE S[n - 1] + (IF LocalMonthIndex(txs[n].timestamp, tz) = m
                             THEN txs[n].total ELSE 0)
    IN S[Len(txs)]

MonthsOf(txs, tz) == {LocalMonthIndex(txs[i].timestamp, tz) : i \in 1..Len(txs)}

MonthlySeriesCorrect(series, txs, tz) ==
    /\ \A i \in 1..Len(series) : WellFormedMonthKey(series[i].month)
    /\ \A i, j \in 1..Len(series) : i # j => series[i].month # series[j].month
    /\ {MonthIndexOfKey(series[i].month) : i \in 1..Len(series)} = MonthsOf(txs, tz)
    /\ \A i \in 1..Len(series) :
          series[i].sales = TotalInMonth(txs, tz, MonthIndexOfKey(series[i].month))

\* C1: the monthly series of AnalyticsService.getSalesAnalytics and of the
\* useAnalytics hook holds, for each month key YYYY-MM, the sum of `total` over
\* exactly the transactions whose timestamp falls in that (local) calendar
\* month; each key appears once and a month without a transaction has no entry.
C1_MonthlySums ==
    /\ IsResult(analytics) =>
          MonthlySeriesCorrect(analytics.result.salesByMonth, analyticsInput, timezoneOffset)
    /\ MonthlySeriesCorrect(hookAnalytics.salesByMonth, transactions, timezoneOffset)

\* both aggregators have summed two sales of one month and one of another
C1_Witness ==
    /\ IsResult(analytics)
    /\ analyticsInput = transactions
    /\ Len(transactions) = 3
    /\ Len(analytics.result.salesByMonth) = 2
    /\ Len(hookAnalytics.salesByMonth) = 2
    /\ \E i \in 1..2, a, b \in 1..3 :
          /\ a < b
          /\ analytics.result.salesByMonth[i].sales
                = transactions[a].total + transactions[b].total
          /\ hookAnalytics.salesByMonth[3 - i] = analytics.result.salesByMonth[i]

\* the revenue of a product name: quantity x price over every item of that name
RevenueOf(txs, name) ==
    LET ItemSum(items) ==
            LET R[n \in 0..Len(items)] ==
                    IF n = 0 THEN 0
                    ELSE R[n - 1] + (IF items[n].name = name
                                     THEN items[n].quantity * items[n].price ELSE 0)
            IN R[Len(items)]
        S[n \in 0..Len(txs)] ==
            IF n = 0 THEN 0 ELSE S[n - 1] + ItemSum(txs[n].items)
    IN S[Len(txs)]

NamesOf(txs) ==
    {txs[i].items[j].name : <<i, j>> \in
        {<<i, j>> \in (1..Len(txs)) \X (1..4) : j <= Len(txs[i].items)}}

Min(a, b) == IF a < b THEN a ELSE b

TopProductsCorrect(top, txs) ==
    LET listed == {top[i].name : i \in 1..Len(top)}
    IN /\ \A i \in 1..Len(top) - 1 : top[i].sales >= top[i + 1].sales
       /\ Len(top) = Min(5, Cardinality(NamesOf(txs)))
       /\ Cardinality(listed) = Len(top)
       /\ listed \subseteq NamesOf(txs)
       /\ \A i \in 1..Len(top) : top[i].sales = RevenueOf(txs, top[i].name)
       /\ \A n \in NamesOf(txs) \ listed :
             \A i \in 1..Len(top) : RevenueOf(txs, n) <= top[i].sales

\* C2: the top-products list is sorted in non-increasing order of revenue, has
\* length min(5, number of distinct product names), lists each product with
\* the sum of quantity x price over all its items, and no product left out has
\* strictly greater revenue than a listed one.
C2_TopProducts ==
    /\ IsResult(analytics) => TopProductsCorrect(analytics.result.topProducts, analyticsInput)
    /\ TopProductsCorrect(hookAnalytics.topProducts, transactions)

\* six or more products were sold, so one is cut off, and a listed product
\* was sold in two transactions
C2_Witness ==
    /\ IsResult(analytics)
    /\ analyticsInput = transactions
    /\ Cardinality(NamesOf(transactions)) > 5
    /\ Len(analytics.result.topProducts) = 5
    /\ Len(hookAnalytics.topProducts) = 5
    /\ \E i \in 1..5 : analytics.result.topProducts[i].sales > 2

\* the revenue of a cashier: the totals of that cashier's transactions
CashierRevenue(txs, c) ==
    LET S[n \in 0..Len(txs)] ==
            IF n = 0 THEN 0
            ELSE S[n - 1] + (IF txs[n].cashierName = c THEN txs[n].total ELSE 0)
    IN S[Len(txs)]
CashiersOf(txs) == {txs[i].cashierName : i \in 1..Len(txs)}

TopCashiersCorrect(a, txs) ==
    /\ "topCashiers" \in DOMAIN a
    /\ Len(a.topCashiers) = Min(5, Cardinality(CashiersOf(txs)))
    /\ \A i \in 1..Len(a.topCashiers) - 1 :
          a.topCashiers[i].sales >= a.topCashiers[i + 1].sales
    /\ \A i \in 1..Len(a.topCashiers) :
          a.topCashiers[i].sales = CashierRevenue(txs, a.topCashiers[i].name)

\* C4: the aggregator's output contains a top-5 cashiers list by revenue (per
\* cashier, the sum of the totals of that cashier's transactions), sorted
\* descending and truncated to 5, alongside the top-5 products list.
C4_TopCashiers ==
    /\ (IsResult(analytics) /\ analyticsInput # << >>) =>
          TopCashiersCorrect(analytics.result, analyticsInput)
    /\ transactions # << >> => TopCashiersCorrect(hookAnalytics, transactions)

\* the plain sum of `total` over a list
TotalOf(txs) ==
    LET S[n \in 0..Len(txs)] == IF n = 0 THEN 0 ELSE S[n - 1] + txs[n].total
    IN S[Len(txs)]
SeriesSum(series) ==
    LET S[n \in 0..Len(series)] == IF n = 0 THEN 0 ELSE S[n - 1] + series[n].sales
    IN S[Len(series)]

TotalsCorrect(a, txs) ==
    /\ a.totalSales = TotalOf(txs)
    /\ a.totalTransactions = Len(txs)
    /\ a.totalSales = SeriesSum(a.salesByMonth)

\* C5: total revenue is the sum of `total` over every transaction of the
\* fetched list, whatever its status, the transaction count is the list's
\* length, and total revenue equals the sum of the monthly series.
C5_Totals ==
    /\ IsResult(analytics) => TotalsCorrect(analytics.result, analyticsInput)
    /\ TotalsCorrect(hookAnalytics, transactions)

\* three sales were summed, one of them refunded, over two months
C5_Witness ==
    /\ IsResult(analytics)
    /\ analyticsInput = transactions
    /\ Len(transactions) = 3
    /\ \E i \in 1..3 : transactions[i].status = "refunded"
    /\ \E i \in 1..3 : transactions[i].status = "completed"
    /\ Len(analytics.result.salesByMonth) = 2
    /\ analytics.result.totalSales > 7
    /\ hookAnalytics.totalSales > 7

-----------------------------------------------------------------------------
(* Properties of the vanilla-script variant *)

\* the pairs <<role of the profile, required role>> a hierarchy
\* admin(3) > manager(2) > cashier(1) grants
Granted ==
    { <<"admin", "admin">>, <<"admin", "manager">>, <<"admin", "cashier">>,
      <<"manager", "manager">>, <<"manager", "cashier">>,
      <<"cashier", "cashier">> }
Higher(r) ==
    CASE r = "cashier" -> {"cashier", "manager", "admin"}
      [] r = "manager" -> {"manager", "admin"}
      [] r = "admin" -> {"admin"}

\* C3: Utils.hasPermission(required) is true exactly when the rank of the
\* signed-in profile's role is at least the rank of `required`, and false
\* when no profile is loaded; what a role is granted every higher role is
\* granted, and admin passes every check.
C3_HasPermission ==
    /\ \A required \in Roles :
          hasPermission(AppState.userProfile, required)
            <=> /\ AppState.userProfile # NoProfile
                /\ <<AppState.userProfile.role, required>> \in Granted
    /\ \A required \in Roles :
          /\ ~hasPermission(NoProfile, required)
          /\ hasPermission(ProfileOf("admin"), required)
          /\ \A r \in Roles :
                hasPermission(ProfileOf(r), required) =>
                   \A h \in Higher(r) : hasPermission(ProfileOf(h), required)

\* a manager is signed in and the main application is shown
C3_Witness ==
    /\ ~dom.mainHidden
    /\ AppState.userProfile = ProfileOf("manager")
    /\ hasPermission(AppState.userProfile, "cashier")
    /\ hasPermission(AppState.userProfile, "manager")
    /\ ~hasPermission(AppState.userProfile, "admin")

\* C7: while the main application is shown for a session, the
\* user-management page is the current page only if the role of the loaded
\* profile is admin or manager.
C7_UsersPageGated ==
    (~dom.mainHidden /\ AppState.user # Null /\ AppState.currentPage = "users")
       => AppState.userProfile.role \in {"admin", "manager"}

\* C8: the main application is displayed only while a current user and
\* token are held; once the session check is over, the login view is shown
\* whenever they are absent.
C8_AuthGate ==
    /\ ~dom.mainHidden => (AppState.user # Null /\ AppState.accessToken # Null)
    /\ (sessionCheck = "done" /\ AppState.user = Null) => ~dom.loginHidden

SessionTokens == {TokenOf(id) : id \in Accounts}
AuthorizationOf(headers) == {h \in headers : h.name = "Authorization"}

\* C10: a request issued through API.request while an access token is held,
\* other than sign-in, carries exactly the header Authorization: Bearer <that
\* token>; a request issued while no token is held carries no bearer token
\* of a session.
C10_BearerToken ==
    lastRequest.endpoint # Null =>
       /\ (lastRequest.tokenHeld # Null /\ lastRequest.endpoint # "/auth/signin")
             => AuthorizationOf(lastRequest.headers) = {Bearer(lastRequest.tokenHeld)}
       /\ lastRequest.tokenHeld = Null
             => \A h \in AuthorizationOf(lastRequest.headers) :
                   h.value[2] \notin SessionTokens

\* a user was deleted with the manager's token, and the cashier has signed
\* in since
C10_Witness ==
    /\ lastRequest.endpoint = "/users/:id"
    /\ lastRequest.method = "DELETE"
    /\ lastRequest.tokenHeld = TokenOf("manager")
    /\ Bearer(TokenOf("manager")) \in lastRequest.headers
    /\ AppState.accessToken = TokenOf("cashier")

-----------------------------------------------------------------------------
(* Properties of the React variant *)

\* C6: the pages are rendered only when the loaded profile has status
\* 'active': a user whose profile is inactive or suspended is never shown
\* the main application.
C6_InactiveNeverShown ==
    AppContent = "pages" => userProfile.status = "active"

\* C9: a session whose role is manager never issues a DELETE request for a
\* user from UserManagement.
C9_ManagerNeverDeletes ==
    ~(lastUserRequest.method = "DELETE" /\ lastUserRequest.role = "manager")

-----------------------------------------------------------------------------
(* Properties of the vanilla-script error handling *)

\* C11: whenever the error of an API request that failed with status 401
\* is given to ErrorHandler.handle, the handler starts the forced logout
\* (Auth.handleLogout), after which user, profile and token are null and
\* the login page is shown.
C11_ForcedLogoutOn401 ==
    lastError.status = 401 => lastError.forcedLogout

-----------------------------------------------------------------------------
(* Properties of DataCache *)

\* what get(key) has to return at time `now` by the sets and clears made
Expected(key, now) ==
    IF written[key].set /\ now <= written[key].at + written[key].minutes
    THEN written[key].data
    ELSE Null

GetAnswers == \A key \in CacheKeys : CacheGet(cache, key, clock) = Expected(key, clock)

Unexpired(key) == cache[key].present /\ clock <= cache[key].expiry

\* the effect of the call a step makes (a step that is not a Tick is the
\* call lastCacheOp' names)
Called(op) == clock' = clock /\ lastCacheOp'.op = op
GetRemovesExpired ==
    Called("get") =>
       ~(cache'[lastCacheOp'.key].present /\ clock > cache'[lastCacheOp'.key].expiry)
CleanupRemovesExpired ==
    Called("cleanup") =>
       \A key \in CacheKeys : ~(cache'[key].present /\ clock > cache'[key].expiry)
OthersKept ==
    Called("get") \/ Called("cleanup") \/ (Called("clear") /\ lastCacheOp'.key # Null)
       => \A key \in CacheKeys :
             (Unexpired(key) /\ key # lastCacheOp'.key) => cache'[key] = cache[key]

\* C12: DataCache.get(key) returns the data of the most recent set(key, data,
\* m) exactly when the entry was not cleared since and the time is not later
\* than the time of the set + m minutes, and null otherwise; an expired entry
\* is removed by that get or by cleanup; get, cleanup and clear(key) leave
\* every unexpired entry of another key as it is.
C12_CacheExpiry ==
    /\ []GetAnswers
    /\ [][GetRemovesExpired /\ CleanupRemovesExpired /\ OthersKept]_vars

\* an entry set for the default 5 minutes is read at its last minute, and
\* another key's entry has been removed as expired
C12_Witness ==
    /\ written["products"].set
    /\ written["products"].minutes = DefaultExpiryMinutes
    /\ clock = written["products"].at + DefaultExpiryMinutes
    /\ lastCacheOp = CacheOp("get", "products")
    /\ CacheGet(cache, "products", clock) = written["products"].data
    /\ written["analytics"].set
    /\ ~cache["analytics"].present

-----------------------------------------------------------------------------
(* Properties of DataLoader *)

\* the step a behaviour takes is the loader step lastLoad' names
LoaderStep(step) == clock' = clock /\ lastLoad'.step = step

\* inside the expiry window of the last response cached for `key`
InWindow(key) ==
    written[key].set /\ clock <= written[key].at + DefaultExpiryMinutes

\* a load without forceRefresh inside the window makes no request
NoRequestInWindow ==
    (LoaderStep("request") /\ ~lastLoad'.forceRefresh) => ~InWindow(lastLoad'.key)
\* and returns the cached response, whatever was written since
CachedServed ==
    LoaderStep("cached") =>
       /\ InWindow(lastLoad'.key)
       /\ lastLoad'.result = written[lastLoad'.key].data
       /\ appData'[lastLoad'.key] = written[lastLoad'.key].data
       /\ loads' = loads
       /\ cache' = cache
\* a write touches neither the cache nor AppState.data
WriteKeepsCache ==
    LoaderStep("write") => (cache' = cache /\ appData' = appData)
\* loadX(true) makes a request whatever the cache holds
ForcedRequests ==
    /\ (LoaderStep("request") /\ lastLoad'.forceRefresh) =>
          (Len(loads') = Len(loads) + 1 /\ cache' = cache /\ appData' = appData)
    /\ LoaderStep("cached") => ~lastLoad'.forceRefresh
\* a response replaces both the cache entry and AppState.data
ResponseReplaces ==
    LoaderStep("resolved") =>
       /\ \E i \in DOMAIN loads :
             /\ loads[i].response = lastLoad'.result
             /\ loads[i].key = lastLoad'.key
             /\ loads' = RemoveAt(loads, i)
       /\ appData'[lastLoad'.key] = lastLoad'.result
       /\ cache'[lastLoad'.key] =
             [present |-> TRUE, data |-> lastLoad'.result,
              expiry |-> clock + DefaultExpiryMinutes]

\* C13: writes do not invalidate the cache.  After a successful write a
\* loadX() without forceRefresh inside the expiry window returns the cached
\* pre-write response and makes no request; loadX(true) always makes a
\* request, and its response replaces the cache entry and AppState.data.X.
C13_NoInvalidationOnWrite ==
    /\ [](\A key \in LoaderKeys :
             Len(loads) < MaxLoads => ENABLED LoadRequest(key, TRUE))
    /\ [][NoRequestInWindow /\ CachedServed /\ WriteKeepsCache /\ ForcedRequests
            /\ ResponseReplaces]_vars

\* a load answered from the cache after a write: AppState.data holds the
\* pre-write response, and no request is in flight
C13_Witness ==
    /\ lastLoad.step = "cached"
    /\ lastLoad.key = "products"
    /\ loads = << >>
    /\ serverData["products"] = 2
    /\ appData["products"] = Responses[1]
    /\ InWindow("products")

-----------------------------------------------------------------------------
(* ProductManagement: responses in completion order *)

\* the step applied the response of a GET /products
Fetched == pmLast'.step = "fetched"
\* the request whose response the step applied
Completed(i) ==
    /\ i \in DOMAIN productRequests
    /\ productRequests[i].kind = "fetch"
    /\ productRequests[i].answered
    /\ Len(productRequests') = Len(productRequests) - 1
    /\ \A j \in DOMAIN productRequests' :
          productRequests'[j].id = productRequests[IF j < i THEN j ELSE j + 1].id
          /\ productRequests'[j].kind = productRequests[IF j < i THEN j ELSE j + 1].kind
          /\ productRequests'[j].products = productRequests[IF j < i THEN j ELSE j + 1].products
\* every request in flight is still in flight after a step, except the one
\* request a step may complete
NoneCancelled == Len(productRequests') >= Len(productRequests) - 1

\* C14: the responses of GET /products are applied in the order in which they
\* complete and none is cancelled: the list after the completion of a request
\* is the list of that response, wherever the request stood in the order of
\* issue, so the response completing last stays, also one issued first.
C14_CompletionOrder ==
    [][/\ NoneCancelled
       /\ Fetched => \E i \in DOMAIN productRequests :
                        /\ Completed(i)
                        /\ pm'.products = productRequests[i].products]_vars

\* the response of the request issued first was applied last: the list shows
\* what the server no longer holds, and nothing is in flight
C14_Witness ==
    /\ pmLast.step = "fetched" /\ pmLast.late
    /\ productRequests = << >>
    /\ pm.products # serverProducts
-----------------------------------------------------------------------------
(* ProductManagement: a failed create, update or delete *)

\* the step ended a create, update or delete in failure
WriteFailed == pmLast'.step = "write-failed"
\* the GET /products requests in flight
FetchesInFlight(requests) == {i \in DOMAIN requests : requests[i].kind = "fetch"}
WritesInFlight(requests) == {i \in DOMAIN requests : requests[i].kind # "fetch"}

\* C16: a create, update or delete that fails (a response that is not ok, or
\* a network error) is not sent again and leaves the state of the screen as it
\* was: the modals, the form data, the selected record and the list keep their
\* values and no list request is issued; exactly one alert is shown.
C16_FailedWriteKeepsState ==
    [][WriteFailed =>
          /\ pm' = pm
          /\ pmLast'.alerts = 1
          /\ Cardinality(FetchesInFlight(productRequests')) =
                Cardinality(FetchesInFlight(productRequests))
          /\ Cardinality(WritesInFlight(productRequests')) <=
                Cardinality(WritesInFlight(productRequests))]_vars

\* an update failed with the edit modal open on a selected product and a
\* typed form: all of it is still there, one alert, nothing in flight
C16_Witness ==
    /\ pmLast.step = "write-failed" /\ pmLast.alerts = 1
    /\ pm.showEditModal /\ pm.selectedProduct # Null /\ pm.formData = "typed"
    /\ productRequests = << >>
-----------------------------------------------------------------------------
(* The Firestore services: sales and products *)

StoreCalled(op) == storeLast'.op = op
\* the step changed the stock of a product that is there before and after
StockChanged ==
    \E id \in DOMAIN productDocs \cap DOMAIN productDocs' :
        productDocs'[id].stock # productDocs[id].stock

\* C15: recording a sale changes no product: TransactionsService.create
\* leaves the products collection, every stock included, as it was; the stock
\* of a product changes only in a product update; deleting a product leaves
\* the sales that name it in place.
C15_SaleChangesNoProduct ==
    [][/\ StoreCalled("transactions.create") => productDocs' = productDocs
       /\ StockChanged => StoreCalled("products.update")
       /\ StoreCalled("products.delete") => transactionDocs' = transactionDocs]_vars

\* a sale was recorded with the stock of its product untouched, and another
\* stored sale names a product that has been deleted
C15_Witness ==
    /\ storeLast.op = "transactions.create"
    /\ \E i \in DOMAIN transactionDocs :
          /\ transactionDocs[i].productId \in DOMAIN productDocs
          /\ productDocs[transactionDocs[i].productId].stock = 1
    /\ \E i \in DOMAIN transactionDocs :
          transactionDocs[i].productId \notin DOMAIN productDocs

\* C17: no call of TransactionsService modifies or deletes a stored
\* transaction: over every step the stored transactions only grow, and a
\* stored transaction keeps all its fields.
C17_TransactionsOnlyGrow ==
    [][/\ DOMAIN transactionDocs \subseteq DOMAIN transactionDocs'
       /\ \A i \in DOMAIN transactionDocs : transactionDocs'[i] = transactionDocs[i]]_vars

\* two sales are stored, the second recorded after the first, and the
\* queries have run on them
C17_Witness ==
    /\ Cardinality(DOMAIN transactionDocs) = 2
    /\ storeLast.op = "transactions.getAll"
    /\ storeLast.ids = DOMAIN transactionDocs
-----------------------------------------------------------------------------
(* The aggregator: products of equal revenue *)

\* the places <<transaction, item>> at which a product name occurs
Occurrences(txs, name) ==
    {<<i, j>> \in (1..Len(txs)) \X (1..4) :
        j <= Len(txs[i].items) /\ txs[i].items[j].name = name}
PlaceBefore(p, q) == p[1] < q[1] \/ (p[1] = q[1] /\ p[2] < q[2])
\* name a occurs in the transaction list before name b does
FirstOccursBefore(txs, a, b) ==
    \E p \in Occurrences(txs, a) : \A q \in Occurrences(txs, b) : PlaceBefore(p, q)
\* the order of Object.entries: names that are array indices first, by
\* number, then the other names by first occurrence
EntryBefore(txs, a, b) ==
    IF ArrayIndexOfName(a) >= 0 /\ ArrayIndexOfName(b) >= 0
    THEN ArrayIndexOfName(a) < ArrayIndexOfName(b)
    ELSE IF ArrayIndexOfName(a) >= 0 \/ ArrayIndexOfName(b) >= 0
         THEN ArrayIndexOfName(a) >= 0
         ELSE FirstOccursBefore(txs, a, b)
\* every tie of the list, and every tie at its cut-off, is in the order
\* Earlier(a, b)
TiesOrdered(top, txs, Earlier(_, _)) ==
    LET listed == {top[i].name : i \in 1..Len(top)}
    IN /\ \A i, j \in 1..Len(top) :
             i < j /\ top[i].sales = top[j].sales => Earlier(top[i].name, top[j].name)
       /\ \A n \in NamesOf(txs) \ listed : \A i \in 1..Len(top) :
             RevenueOf(txs, n) = top[i].sales => Earlier(top[i].name, n)
ByFirstOccurrence(top, txs) ==
    TiesOrdered(top, txs, LAMBDA a, b : FirstOccursBefore(txs, a, b))
ByEntryOrder(top, txs) ==
    TiesOrdered(top, txs, LAMBDA a, b : EntryBefore(txs, a, b))

\* C18 as stated: products of equal revenue stand in the top-products list in
\* the order in which their names first occur in the transaction list,
\* whatever the names, and the same order decides which of them the cut-off
\* at 5 keeps.
C18_TiesByFirstOccurrence ==
    /\ IsResult(analytics) => ByFirstOccurrence(analytics.result.topProducts, analyticsInput)
    /\ ByFirstOccurrence(hookAnalytics.topProducts, transactions)

\* C18 amended: products of equal revenue stand in the order of
\* Object.entries: the names that are array indices ("7", "12") first, in
\* ascending numeric order, then the other names in the order of their first
\* occurrence; the same order decides which of them the cut-off at 5 keeps.
C18_TiesByEntryOrder ==
    /\ IsResult(analytics) => ByEntryOrder(analytics.result.topProducts, analyticsInput)
    /\ ByEntryOrder(hookAnalytics.topProducts, transactions)

\* more than five products were sold, a tie stands in the list and a product
\* tied with a listed one is cut off
C18_Witness ==
    /\ IsResult(analytics)
    /\ analyticsInput = transactions
    /\ Cardinality(NamesOf(transactions)) > 5
    /\ LET top == analytics.result.topProducts
       IN /\ \E i, j \in 1..Len(top) : i < j /\ top[i].sales = top[j].sales
                /\ ArrayIndexOfName(top[i].name) < 0 /\ ArrayIndexOfName(top[j].name) < 0
          /\ \E n \in NamesOf(transactions) \ {top[i].name : i \in 1..Len(top)} :
                RevenueOf(transactions, n) = top[Len(top)].sales
-----------------------------------------------------------------------------
(* Creating users: profile ids *)

\* C19: the id of every user profile document is the uid of the auth account
\* it belongs to, whichever way the client created the user, so the lookup by
\* uid at sign-in finds the profile.
C19_ProfileIdIsUid ==
    \A id \in DOMAIN userDocs :
        id \in DOMAIN authAccounts /\ authAccounts[id] = userDocs[id].email
-----------------------------------------------------------------------------
(* Stock levels: one bound *)

\* C20: a product is flagged as low on stock exactly when its stock is at
\* most 10: the status is 'out-of-stock' iff the stock is 0, 'low-stock' iff
\* it is at most 10 and not 0, 'in-stock' iff it is above 10; the warning of
\* ProductManagement shows iff the stock is at most 10, and the list of
\* useLowStockProducts with its default threshold holds exactly the products
\* with a stock of at most 10.
C20_LowStockBound ==
    /\ \A id \in DOMAIN shelf :
          /\ stockView.status[id] = "out-of-stock" <=> shelf[id] = 0
          /\ stockView.status[id] = "low-stock" <=> (shelf[id] <= 10 /\ shelf[id] # 0)
          /\ stockView.status[id] = "in-stock" <=> shelf[id] > 10
          /\ stockView.warning[id] <=> shelf[id] <= 10
    /\ {stockView.lowStock[i] : i \in 1..Len(stockView.lowStock)} =
          {id \in DOMAIN shelf : shelf[id] <= 10}

\* one product stands at 10 and is flagged, warned of and listed; the other
\* stands at 11 and is not
C20_Witness ==
    /\ shelf["p1"] = 10 /\ shelf["p2"] = 11
    /\ stockView.status["p1"] = "low-stock" /\ stockView.status["p2"] = "in-stock"
    /\ stockView.warning["p1"] /\ ~stockView.warning["p2"]
    /\ stockView.lowStock = <<"p1">>
-----------------------------------------------------------------------------
(* TransactionManagement: the filtered list *)

\* the term occurs in the string, whatever the case of the letters
OccursIn(term, str) ==
    \E k \in 1..(Len(str) + 1) :
        /\ k + Len(term) - 1 <= Len(str)
        /\ \A i \in 1..Len(term) : LowerChar(str[k + i - 1]) = LowerChar(term[i])
\* the name the list shows for a cashier
ShownCashier(t) ==
    IF \E i \in 1..Len(tm.users) : tm.users[i].id = t.cashierId
    THEN (CHOOSE u \in {tm.users[i] : i \in 1..Len(tm.users)} : u.id = t.cashierId).name
    ELSE UnknownCashier
\* the transaction matches the search term and every active filter
Matches(t) ==
    /\ \/ OccursIn(tm.searchTerm, t.id)
       \/ OccursIn(tm.searchTerm, ShownCashier(t))
       \/ \E i \in 1..Len(t.items) : OccursIn(tm.searchTerm, t.items[i].name)
    /\ \/ tm.dateFilter = "all"
       \/ tm.dateFilter = "today" /\ t.timestamp \div TicksPerDay = tmNow \div TicksPerDay
       \/ tm.dateFilter = "week" /\ tmNow - t.timestamp <= 7 * TicksPerDay
       \/ tm.dateFilter = "month" /\ tmNow - t.timestamp <= 30 * TicksPerDay
    /\ tm.cashierFilter \in {"all", t.cashierId}
    /\ tm.paymentFilter \in {"all", t.paymentMethod}
ElementsOf(list) == {list[i] : i \in 1..Len(list)}
NoFilter ==
    /\ tm.searchTerm = << >>
    /\ tm.dateFilter = "all" /\ tm.cashierFilter = "all" /\ tm.paymentFilter = "all"

\* C21: getFilteredTransactions returns exactly the fetched transactions that
\* match the search term and every active filter, each once, ordered by
\* timestamp descending, and leaves the fetched list as it was; with an empty
\* search term and all filters 'all' it returns every fetched transaction.
C21_FilteredTransactions ==
    /\ ElementsOf(tmFiltered) = {t \in ElementsOf(tmFetched) : Matches(t)}
    /\ Len(tmFiltered) = Cardinality(ElementsOf(tmFiltered))
    /\ \A i, j \in 1..Len(tmFiltered) :
          i < j => tmFiltered[i].timestamp >= tmFiltered[j].timestamp
    /\ tm.transactions = tmFetched
    /\ NoFilter => Len(tmFiltered) = Len(tmFetched)

\* a list fetched in ascending order of time is shown in descending order,
\* with a search term in other letter case than the match and a date window
\* that leaves a fetched transaction out
C21_Witness ==
    /\ Len(tmFetched) = MaxFetched
    /\ tmFetched[1].timestamp < tmFetched[2].timestamp
    /\ tm.searchTerm = <<"U", "N">>
    /\ tm.dateFilter = "week"
    /\ Len(tmFiltered) = 1
    /\ tmFiltered[1].cashierId = "u3"
-----------------------------------------------------------------------------
(* The React AuthProvider: whose profile *)

\* the role is strictly below the role of the session
StrictlyBelow(role, session) ==
    \/ session = "admin" /\ role \in {"manager", "cashier"}
    \/ session = "manager" /\ role = "cashier"

\* C25: a sign-in that is rejected after the credentials were accepted
\* (profile missing, or status not 'active') signs the session out before the
\* error is returned: an AuthService.signIn that threw leaves no current user
C25_RejectedSignInSignedOut ==
    lastSignIn.ended = "thrown" => authCurrentUser = Null

\* C26: AuthService.createUser is all-or-nothing: a call that fails leaves
\* neither the auth account nor the profile document, so every auth account
\* created through it has a profile document
C26_AccountHasProfile ==
    \A uid \in DOMAIN authAccounts : uid \in DOMAIN userDocs

\* C24: no privilege escalation through UserManagement: a non-admin session
\* never submits a create or update request whose role is admin or manager,
\* has the edit or the delete dialog open only for a user whose role is
\* strictly below its own (a cashier for nobody), and never has the Add User
\* dialog open
C24_NoEscalation ==
    /\ (lastUserRequest.method \in {"POST", "PUT"} /\ lastUserRequest.role # "admin")
          => lastUserRequest.body \notin {"admin", "manager"}
    /\ (sessionRole # "admin" /\ (showEditModal \/ showDeleteModal)
                              /\ selectedUser # Null)
          => StrictlyBelow(StaffUser(selectedUser).role, sessionRole)
    /\ \A id \in StaffIds : ~canManageUser("cashier", StaffUser(id))
    /\ showAddModal => sessionRole = "admin"
\* a manager has changed the role select of the edit form and submitted it
C24_Witness ==
    /\ lastUserRequest.method = "PUT"
    /\ lastUserRequest.role = "manager"
    /\ lastUserRequest.body = "cashier"

\* C23: after Auth.handleLogout nothing stored under the previous session is
\* served to the next: a DataLoader.loadX that returns from the cache never
\* returns an entry stored before the last logout, and the AppState.data list
\* it leaves is not one stored before that logout
StepOfLoader(step) == LoaderStep(step) /\ UNCHANGED vanillaVars
C23_NothingServedAcrossLogout ==
    [][StepOfLoader("cached") =>
          /\ <<"cache", lastLoad'.key>> \notin heldOver
          /\ <<"data", lastLoad'.key>> \notin heldOver']_vars

\* C22: whenever user and userProfile are both non-null, userProfile is the
\* profile document of that user, under every interleaving of auth-state
\* notifications, their profile fetches, signIn and signOut: the late
\* profile response of an earlier user never stands in for the profile of
\* the current user.
C22_ProfileOfUser ==
    (user # Null /\ userProfile # NullProfile) => userProfile.id = user
====
